---- MODULE Spec2Model ----
(***************************************************************************)
(* Risk-gated position lifecycle engine of the trading bot (src/app.py):   *)
(* RiskManager (risk gate + statistics ledger), PositionManager (ladder    *)
(* and reconciliation tick) and the executor's registration of positions.  *)
(*                                                                         *)
(* Units.  Prices are integers in hundredths (10000 = 100.00).             *)
(* Percentages computed by the code are kept in basis points (1/100 of a   *)
(* percent); configured percentages stay in whole percent as in the code.  *)
(* Money is in cents.  The prices of the model are multiples of 100 and    *)
(* the entry price is 10000, so every division of the code is exact.       *)
(*                                                                         *)
(* A handler is one action.  Its body is written as operators over a       *)
(* "world" record (the objects the handler can touch); an operator returns *)
(* the SET of worlds the call can end in, one per combination of gateway   *)
(* answers it consumed.  w.ret is the return value of the last call and    *)
(* w.log the events of the running handler, in program order.              *)
(***************************************************************************)
EXTENDS Integers, Sequences, FiniteSets, TLC

VARIABLES
    active_positions,   \* PositionManager.active_positions : dict symbol -> position
    rm,                 \* the RiskManager object (limits, gate state, ledger)
    trade_history,      \* TRADE_HISTORY_FILE, the append-only outcome log
    venue,              \* stop orders in force at the exchange, per symbol
    bot,                \* TelegramTradingBot flags read by the ladder
    now,                \* wall clock, minutes
    next_order_id,      \* number of opening orders accepted so far
    log,                \* events of the last handler, in program order
    threads,            \* where each thread of the process stands in its handler
    closing_orders,     \* closing market orders the venue accepted, per position
    sizing,             \* the last sizing of the executor: its inputs and its result
    call,               \* the method the last step called directly: its name, its
                        \* instrument, what it returned, every event it produced,
                        \* the position it started from and whether it left the
                        \* positions, the ledger and the stops at the venue alone
    monitor_threads,    \* number of _monitor_positions threads that have not ended
    limit_access        \* how far a running update_settings has written, and the
                        \* limits a running check_trading_allowed has read so far

vars == <<active_positions, rm, trade_history, venue, bot, now, next_order_id, log,
          threads, closing_orders, sizing, call, monitor_threads, limit_access>>

----------------------------------------------------------------------------
(* Bounds of the model *)

MaxOrders == 1          \* opening orders accepted over a behaviour
MaxTrades == 2          \* ledger records written over a behaviour
MaxDay == 1             \* last calendar day the clock may reach
MaxSignals == 2         \* opening orders accepted in SpecRepeat and SpecOpen
MaxMonitorThreads == 2  \* monitor threads alive at a time in SpecLoop

(* Program constants *)

None == "None"        \* Python None where the other values are strings
NoTime == 0 - 1       \* Python None where the other values are times
NoPrice == 0          \* Python None where the other values are prices
Unknown == 0 - 1      \* a balance or margin level that could not be fetched

DefaultLeverage == 10
DefaultAmount == 10000
HistoryCap == 1000
MinutesPerDay == 24 * 60
PctScale == 100 * 100

Symbols == {"BTCUSDT"}

EntryPrice == 100 * 100

Min(a, b) == IF a <= b THEN a ELSE b
Max(a, b) == IF a >= b THEN a ELSE b
Abs(a) == IF a < 0 THEN 0 - a ELSE a

Days == 0..MaxDay

(* datetime.now().date() and the Monday of its week, as day numbers *)
Today(t) == t \div MinutesPerDay
WeekStart(t) == Today(t) - (Today(t) % 7)

----------------------------------------------------------------------------
(* RiskManager *)

DefaultLimits ==
    [ max_daily_loss |-> 10000,
      max_weekly_loss |-> 50000,
      max_consecutive_losses |-> 3,
      max_daily_trades |-> 10,
      max_loss_percentage |-> 10,
      cooldown_after_losses |-> 60,
      breakeven_target_choice |-> 1,
      min_margin_level |-> 150,
      max_open_positions |-> 5,
      max_position_percentage |-> 30,
      trailing_stop_enabled |-> FALSE,
      trailing_stop_percentage |-> 2,
      partial_close_enabled |-> TRUE,
      partial_close_targets |-> <<25, 50, 75>>,
      emergency_stop_loss |-> 50,
      profit_protection_percentage |-> 80,
      auto_deleverage_threshold |-> 120,
      drawdown_limit |-> 15 ]

FreshLedger ==
    [ daily_losses |-> [d \in Days |-> 0],
      weekly_losses |-> [d \in Days |-> 0],
      consecutive_losses |-> 0,
      total_trades_today |-> 0,
      failed_trades_today |-> 0,
      is_trading_locked |-> FALSE,
      lock_reason |-> << >>,
      last_trade_time |-> NoTime,
      total_profit |-> 0,
      total_loss |-> 0,
      win_rate |-> 0,
      total_trades |-> 0,
      winning_trades |-> 0,
      losing_trades |-> 0,
      peak_balance |-> 0,
      current_drawdown |-> 0,
      largest_win |-> 0,
      largest_loss |-> 0,
      average_win |-> 0,
      average_loss |-> 0,
      profit_factor |-> 0,
      sharpe_ratio |-> 0 ]

(* RiskManager.__init__ : every field ends at its default, whatever load   *)
(* read, because the assignments follow the load_risk_data call.           *)
RiskManagerInit == [ lim |-> DefaultLimits ] @@ FreshLedger

(* defaultdict(float) "+=" ; a missing key reads as 0 *)
AddTo(d, k, v) == [ d EXCEPT ![k] = @ + v ]

(* save_trade_to_history : append, keep the last HistoryCap entries.  The   *)
(* order_id field is a ghost: it names the position the record is about.   *)
save_trade_to_history(h, symbol, oid, profit_loss, is_win) ==
    LET h1 == Append(h, [symbol |-> symbol, order_id |-> oid,
                         profit_loss |-> profit_loss, is_win |-> is_win])
    IN  IF Len(h1) > HistoryCap THEN SubSeq(h1, Len(h1) - HistoryCap + 1, Len(h1)) ELSE h1

(* RecordCounters with the losing streak kept on a win *)
RecordCountersKeepStreak(r, profit_loss, is_win, t) ==
    LET r1 == [ r EXCEPT !.total_trades = @ + 1,
                         !.total_trades_today = @ + 1,
                         !.last_trade_time = t ]
    IN  IF is_win
        THEN [ r1 EXCEPT !.winning_trades = @ + 1,
                         !.total_profit = @ + profit_loss,
                         !.largest_win = Max(@, profit_loss) ]
        ELSE [ r1 EXCEPT !.losing_trades = @ + 1,
                         !.total_loss = @ + Abs(profit_loss),
                         !.consecutive_losses = @ + 1,
                         !.failed_trades_today = @ + 1,
                         !.largest_loss = Max(@, Abs(profit_loss)),
                         !.daily_losses = AddTo(@, Today(t), Abs(profit_loss)),
                         !.weekly_losses = AddTo(@, WeekStart(t), Abs(profit_loss)) ]

(* RecordCounters with the loss counter forgotten on the losing branch *)
RecordCountersNoLossCount(r, profit_loss, is_win, t) ==
    LET r1 == [ r EXCEPT !.total_trades = @ + 1,
                         !.total_trades_today = @ + 1,
                         !.last_trade_time = t ]
    IN  IF is_win
        THEN [ r1 EXCEPT !.winning_trades = @ + 1,
                         !.total_profit = @ + profit_loss,
                         !.consecutive_losses = 0,
                         !.largest_win = Max(@, profit_loss) ]
        ELSE [ r1 EXCEPT !.total_loss = @ + Abs(profit_loss),
                         !.consecutive_losses = @ + 1,
                         !.failed_trades_today = @ + 1,
                         !.largest_loss = Max(@, Abs(profit_loss)),
                         !.daily_losses = AddTo(@, Today(t), Abs(profit_loss)),
                         !.weekly_losses = AddTo(@, WeekStart(t), Abs(profit_loss)) ]

(* record_trade_result, counters and accumulators (lines 395-413) *)
RecordCounters(r, profit_loss, is_win, t) ==
    LET r1 == [ r EXCEPT !.total_trades = @ + 1,
                         !.total_trades_today = @ + 1,
                         !.last_trade_time = t ]
    IN  IF is_win
        THEN [ r1 EXCEPT !.winning_trades = @ + 1,
                         !.total_profit = @ + profit_loss,
                         !.consecutive_losses = 0,
                         !.largest_win = Max(@, profit_loss) ]
        ELSE [ r1 EXCEPT !.losing_trades = @ + 1,
                         !.total_loss = @ + Abs(profit_loss),
                         !.consecutive_losses = @ + 1,
                         !.failed_trades_today = @ + 1,
                         !.largest_loss = Max(@, Abs(profit_loss)),
                         !.daily_losses = AddTo(@, Today(t), Abs(profit_loss)),
                         !.weekly_losses = AddTo(@, WeekStart(t), Abs(profit_loss)) ]

(* record_trade_result, derived statistics (lines 415-433).  win_rate is   *)
(* in basis points, the averages in cents, the two ratios in hundredths.   *)
RecordStatistics(r) ==
    LET r1 == IF r.total_trades > 0
              THEN [ r EXCEPT !.win_rate = (r.winning_trades * PctScale) \div r.total_trades ]
              ELSE r
        r2 == IF r1.winning_trades > 0
              THEN [ r1 EXCEPT !.average_win = r1.total_profit \div r1.winning_trades ]
              ELSE r1
        r3 == IF r2.losing_trades > 0
              THEN [ r2 EXCEPT !.average_loss = r2.total_loss \div r2.losing_trades ]
              ELSE r2
        r4 == IF r3.average_loss > 0
              THEN [ r3 EXCEPT !.profit_factor = (r3.average_win * 100) \div r3.average_loss ]
              ELSE r3
    IN  IF r4.total_trades > 1
        THEN [ r4 EXCEPT !.sharpe_ratio =
                 IF r4.average_loss > 0
                 THEN (((r4.total_profit - r4.total_loss) \div r4.total_trades) * 100)
                          \div Max(100, r4.average_loss)
                 ELSE 0 ]
        ELSE r4

(* RiskManager.record_trade_result on the (rm, history) pair of a world *)
record_trade_result(w, symbol, oid, profit_loss, is_win) ==
    [ w EXCEPT !.rm = RecordStatistics(RecordCounters(w.rm, profit_loss, is_win, w.now)),
               !.hist = save_trade_to_history(w.hist, symbol, oid, profit_loss, is_win),
               !.log = Append(@, [ ev |-> "record", sym |-> symbol, n |-> 0 ]) ]

(* RiskManager.check_trading_allowed.  balance = Unknown and margin_level = *)
(* Unknown stand for "not known"; the result carries the reason list, the     *)
(* cooldown remainder and the updated gate.                                *)
AppendIf(seq, cond, tag) == IF cond THEN Append(seq, tag) ELSE seq

CooldownEnd(r) == r.last_trade_time + r.lim.cooldown_after_losses

CooldownActive(r, t) ==
    /\ r.consecutive_losses >= r.lim.max_consecutive_losses
    /\ r.last_trade_time # NoTime
    /\ t < CooldownEnd(r)

(* check_trading_allowed returning at the first violated check *)
check_trading_allowed_first_only(r, t, balance, margin_level, open_positions_count) ==
    LET today == Today(t)
        week_start == WeekStart(t)
        balance_known == balance # Unknown /\ balance > 0
        dd_checked == balance_known /\ r.peak_balance > 0
        reasons ==
            IF r.daily_losses[today] >= r.lim.max_daily_loss THEN << "daily_loss" >>
            ELSE IF r.weekly_losses[week_start] >= r.lim.max_weekly_loss THEN << "weekly_loss" >>
            ELSE IF r.consecutive_losses >= r.lim.max_consecutive_losses
            THEN AppendIf(<< "consecutive_losses" >>, CooldownActive(r, t), "cooldown")
            ELSE IF r.total_trades_today >= r.lim.max_daily_trades THEN << "daily_trades" >>
            ELSE IF open_positions_count >= r.lim.max_open_positions THEN << "open_positions" >>
            ELSE IF balance_known /\ r.daily_losses[today] * 100 >= r.lim.max_loss_percentage * balance
            THEN << "loss_percentage" >>
            ELSE IF dd_checked /\ (r.peak_balance - balance) * 100 > r.lim.drawdown_limit * r.peak_balance
            THEN << "drawdown" >>
            ELSE IF margin_level # Unknown /\ margin_level < r.lim.min_margin_level
            THEN AppendIf(<< "margin_level" >>, margin_level < r.lim.auto_deleverage_threshold,
                          "auto_deleverage")
            ELSE AppendIf(<< >>, margin_level # Unknown /\ margin_level < r.lim.auto_deleverage_threshold,
                          "auto_deleverage")
    IN  [ allowed |-> (reasons = << >>),
          reasons |-> reasons,
          remaining |-> IF CooldownActive(r, t)
                        THEN (CooldownEnd(r) - t) % MinutesPerDay
                        ELSE NoTime,
          rm |-> [ r EXCEPT !.current_drawdown =
                                IF dd_checked
                                THEN ((r.peak_balance - balance) * PctScale) \div r.peak_balance
                                ELSE r.current_drawdown,
                            !.is_trading_locked = (reasons # << >>),
                            !.lock_reason = reasons ] ]

(* check_trading_allowed where the losing streak denies only while the     *)
(* cooldown runs                                                           *)
check_trading_allowed_until_cooldown(r, t, balance, margin_level, open_positions_count) ==
    LET today == Today(t)
        week_start == WeekStart(t)
        r1 == AppendIf(<< >>, r.daily_losses[today] >= r.lim.max_daily_loss, "daily_loss")
        r2 == AppendIf(r1, r.weekly_losses[week_start] >= r.lim.max_weekly_loss, "weekly_loss")
        r3 == AppendIf(r2, CooldownActive(r, t), "consecutive_losses")
        r4 == AppendIf(r3, CooldownActive(r, t), "cooldown")
        r5 == AppendIf(r4, r.total_trades_today >= r.lim.max_daily_trades, "daily_trades")
        r6 == AppendIf(r5, open_positions_count >= r.lim.max_open_positions, "open_positions")
        balance_known == balance # Unknown /\ balance > 0
        r7 == AppendIf(r6, balance_known /\
                  r.daily_losses[today] * 100 >= r.lim.max_loss_percentage * balance,
                  "loss_percentage")
        dd_checked == balance_known /\ r.peak_balance > 0
        drawdown == IF dd_checked
                    THEN ((r.peak_balance - balance) * PctScale) \div r.peak_balance
                    ELSE r.current_drawdown
        r8 == AppendIf(r7, dd_checked /\
                  (r.peak_balance - balance) * 100 > r.lim.drawdown_limit * r.peak_balance,
                  "drawdown")
        r9 == AppendIf(r8, margin_level # Unknown /\ margin_level < r.lim.min_margin_level,
                  "margin_level")
        reasons == AppendIf(r9, margin_level # Unknown /\ margin_level < r.lim.auto_deleverage_threshold,
                  "auto_deleverage")
    IN  [ allowed |-> (reasons = << >>),
          reasons |-> reasons,
          remaining |-> IF CooldownActive(r, t)
                        THEN (CooldownEnd(r) - t) % MinutesPerDay
                        ELSE NoTime,
          rm |-> [ r EXCEPT !.current_drawdown = drawdown,
                            !.is_trading_locked = (reasons # << >>),
                            !.lock_reason = reasons ] ]

check_trading_allowed(r, t, balance, margin_level, open_positions_count) ==
    LET today == Today(t)
        week_start == WeekStart(t)
        r1 == AppendIf(<< >>, r.daily_losses[today] >= r.lim.max_daily_loss, "daily_loss")
        r2 == AppendIf(r1, r.weekly_losses[week_start] >= r.lim.max_weekly_loss, "weekly_loss")
        r3 == AppendIf(r2, r.consecutive_losses >= r.lim.max_consecutive_losses, "consecutive_losses")
        r4 == AppendIf(r3, CooldownActive(r, t), "cooldown")
        r5 == AppendIf(r4, r.total_trades_today >= r.lim.max_daily_trades, "daily_trades")
        r6 == AppendIf(r5, open_positions_count >= r.lim.max_open_positions, "open_positions")
        balance_known == balance # Unknown /\ balance > 0
        r7 == AppendIf(r6, balance_known /\
                  r.daily_losses[today] * 100 >= r.lim.max_loss_percentage * balance,
                  "loss_percentage")
        dd_checked == balance_known /\ r.peak_balance > 0
        drawdown == IF dd_checked
                    THEN ((r.peak_balance - balance) * PctScale) \div r.peak_balance
                    ELSE r.current_drawdown
        r8 == AppendIf(r7, dd_checked /\
                  (r.peak_balance - balance) * 100 > r.lim.drawdown_limit * r.peak_balance,
                  "drawdown")
        r9 == AppendIf(r8, margin_level # Unknown /\ margin_level < r.lim.min_margin_level,
                  "margin_level")
        reasons == AppendIf(r9, margin_level # Unknown /\ margin_level < r.lim.auto_deleverage_threshold,
                  "auto_deleverage")
    IN  [ allowed |-> (reasons = << >>),
          reasons |-> reasons,
          remaining |-> IF CooldownActive(r, t)
                        THEN (CooldownEnd(r) - t) % MinutesPerDay
                        ELSE NoTime,
          rm |-> [ r EXCEPT !.current_drawdown = drawdown,
                            !.is_trading_locked = (reasons # << >>),
                            !.lock_reason = reasons ] ]

(* RiskManager.reset_daily_stats *)
reset_daily_stats(r) == [ r EXCEPT !.total_trades_today = 0, !.failed_trades_today = 0 ]

(* POST /api/risk/unlock *)
unlock_trading(r) ==
    [ r EXCEPT !.is_trading_locked = FALSE, !.consecutive_losses = 0, !.last_trade_time = NoTime ]

(* RiskManager.update_settings with a complete settings dictionary *)
update_settings(r, settings) == [ r EXCEPT !.lim = settings ]

----------------------------------------------------------------------------
(* Worlds and gateway answers *)

Ev(e, symbol, n) == [ ev |-> e, sym |-> symbol, n |-> n ]

Ret(w, v) == [ w EXCEPT !.ret = v ]

(* the events the log keeps: ledger writes, removals, the checks of a tick *)
(* and what they found, closing orders, breakeven migrations, and the      *)
(* calls the venue refused                                                 *)
Logged ==
    { "record", "removed", "emergency_check", "emergency", "market_close", "market_close_rejected",
      "target_check", "target_reached", "trailing_update", "poll_tp", "tp_filled",
      "poll_sl", "sl_filled", "error", "breakeven",
      "stop_rejected", "cancel_failed", "no_size" }

(* every event goes to the trace of the running call *)
Emit(w, e, symbol, n) ==
    [ w EXCEPT !.trace = Append(@, Ev(e, symbol, n)),
               !.log = IF e \in Logged THEN Append(@, Ev(e, symbol, n)) ELSE @ ]

(* sequencing: run F in every world of S *)
Bind(S, F(_)) == UNION { F(w) : w \in S }

HasPos(w, symbol) == symbol \in DOMAIN w.ap
SetPos(w, symbol, pos) == [ w EXCEPT !.ap[symbol] = pos ]

IsLong(pos) == pos.position_type = "long"

(* get_current_price, live branch: the venue's last price, or None when    *)
(* the ticker call fails.  w.px is what the ticker answers while the       *)
(* handler runs (NoPrice: the ticker is down).                             *)
get_current_price(w, symbol) == { w.px }

(* get_current_position_size, live branch: the open size the venue         *)
(* reports, or 0 (no open size, non-zero retCode, or a transport error).   *)
get_current_position_size(w, symbol) ==
    IF HasPos(w, symbol) THEN { w.ap[symbol].position_size, 0 } ELSE { 0 }

(* a venue call that answers retCode 0 or fails *)
GatewayAnswers == { TRUE, FALSE }

(* is_order_filled, live branch: Filled/PartiallyFilled, or anything else *)
is_order_filled(w, symbol, order_id) == { TRUE, FALSE }

----------------------------------------------------------------------------
(* PositionManager *)

remove_position(w, symbol) ==
    IF HasPos(w, symbol)
    THEN Emit([ w EXCEPT !.ap = [ x \in (DOMAIN w.ap) \ {symbol} |-> w.ap[x] ] ],
              "removed", symbol, 0)
    ELSE w

(* close_position_market without the look-up of lines 1241-1243 *)
close_position_check_untracked(w, symbol) ==
    IF ~HasPos(w, symbol) THEN { Ret(w, TRUE) }
    ELSE { Ret(w, current_size > 0) : current_size \in get_current_position_size(w, symbol) }

(* close_position_market up to the size it reads (lines 1241-1247): ret is *)
(* TRUE when a closing order is to be sent                                 *)
close_position_check(w, symbol) ==
    IF ~HasPos(w, symbol) THEN { Ret(w, FALSE) }
    ELSE { Ret(w, current_size > 0) : current_size \in get_current_position_size(w, symbol) }

(* close_position_market from the order it places (lines 1249-1273) *)
close_position_send(w, symbol) ==
    { IF ok
      THEN Ret(remove_position(Emit([ w EXCEPT !.venue[symbol] = NoPrice ],
                                    "market_close", symbol, 0), symbol), TRUE)
      ELSE Ret(Emit(w, "market_close_rejected", symbol, 0), FALSE)
      : ok \in GatewayAnswers }

close_position_market(w, symbol) ==
    Bind(close_position_check(w, symbol),
         LAMBDA c : IF c.ret THEN close_position_send(c, symbol) ELSE { c })

(* set_trading_stop, then the set_conditional_stop fallback (lines 1307-1313) *)
PlaceStop(w, symbol, sl_price) ==
    { IF trading_stop_ok
      THEN Ret(Emit([ w EXCEPT !.ap[symbol].sl_order_id = "TRADING_STOP",
                               !.venue[symbol] = sl_price ],
                    "stop_set", symbol, 0), TRUE)
      ELSE IF conditional_ok
      THEN Ret(Emit([ w EXCEPT !.ap[symbol].sl_order_id = "CONDITIONAL_STOP",
                               !.venue[symbol] = sl_price ],
                    "stop_set", symbol, 0), TRUE)
      ELSE Ret(Emit(w, "stop_rejected", symbol, 0), FALSE)
      : <<trading_stop_ok, conditional_ok>> \in { <<TRUE, TRUE>>, <<FALSE, TRUE>>, <<FALSE, FALSE>> } }

(* the validation of set_stop_loss (lines 1293-1300): TRUE when rejected *)
InvalidSL(pos, sl_price) ==
    /\ ~pos.trailing_stop_active
    /\ \/ IsLong(pos) /\ sl_price >= pos.entry_price
       \/ pos.position_type = "short" /\ sl_price <= pos.entry_price

set_stop_loss(w, symbol, sl_price) ==
    IF ~HasPos(w, symbol) THEN { Ret(w, FALSE) }
    ELSE IF InvalidSL(w.ap[symbol], sl_price)
    THEN { Ret(Emit(w, "invalid_sl", symbol, 0), FALSE) }
    ELSE UNION { IF current_size <= 0 THEN { Ret(Emit(w, "no_size", symbol, 0), FALSE) }
                 ELSE PlaceStop(w, symbol, sl_price)
                 : current_size \in get_current_position_size(w, symbol) }

(* cancel_sl_order: the venue drops the stop, or the call fails and the    *)
(* stop stays in force; the caller ignores the answer.                     *)
cancel_sl_order(w, symbol, order_id) ==
    { Ret(Emit([ w EXCEPT !.venue[symbol] = NoPrice ], "stop_cancelled", symbol, 0), TRUE),
      Ret(Emit(w, "cancel_failed", symbol, 0), FALSE) }

(* the price move_sl_to_breakeven asks for (lines 1398-1413) *)
BreakevenPrice(pos, lim) ==
    IF lim.profit_protection_percentage > 0 /\ pos.max_profit > 0
    THEN LET protected_profit == (pos.max_profit * lim.profit_protection_percentage) \div 100
         IN  IF IsLong(pos)
             THEN pos.entry_price + (pos.entry_price * protected_profit) \div PctScale
             ELSE pos.entry_price - (pos.entry_price * protected_profit) \div PctScale
    ELSE pos.entry_price

(* move_sl_to_breakeven without the early return of lines 1394-1396 *)
move_sl_to_breakeven_again(w, symbol) ==
    IF ~HasPos(w, symbol) THEN { Ret(w, FALSE) }
    ELSE LET pos == w.ap[symbol]
             breakeven_price == BreakevenPrice(pos, w.rm.lim)
             cancelled == IF pos.sl_order_id # None
                          THEN { [ c EXCEPT !.ap[symbol].sl_order_id = None ]
                                 : c \in cancel_sl_order(w, symbol, pos.sl_order_id) }
                          ELSE { w }
             Finish(w1) == IF w1.ret
                           THEN Ret(Emit([ w1 EXCEPT !.ap[symbol].sl_moved_to_breakeven = TRUE ],
                                         "breakeven", symbol, 0), TRUE)
                           ELSE Ret(w1, FALSE)
         IN  { Finish(w1) : w1 \in Bind(cancelled, LAMBDA c : set_stop_loss(c, symbol, breakeven_price)) }

move_sl_to_breakeven(w, symbol) ==
    IF ~HasPos(w, symbol) THEN { Ret(w, FALSE) }
    ELSE IF w.ap[symbol].sl_moved_to_breakeven THEN { Ret(w, TRUE) }
    ELSE LET pos == w.ap[symbol]
             breakeven_price == BreakevenPrice(pos, w.rm.lim)
             cancelled == IF pos.sl_order_id # None
                          THEN { [ c EXCEPT !.ap[symbol].sl_order_id = None ]
                                 : c \in cancel_sl_order(w, symbol, pos.sl_order_id) }
                          ELSE { w }
             Finish(w1) == IF w1.ret
                           THEN Ret(Emit([ w1 EXCEPT !.ap[symbol].sl_moved_to_breakeven = TRUE ],
                                         "breakeven", symbol, 0), TRUE)
                           ELSE Ret(w1, FALSE)
         IN  { Finish(w1) : w1 \in Bind(cancelled, LAMBDA c : set_stop_loss(c, symbol, breakeven_price)) }

(* profit of a price against the entry, in basis points (lines 1154, 1171) *)
ProfitPct(pos, price) ==
    IF IsLong(pos)
    THEN ((price - pos.entry_price) * PctScale) \div pos.entry_price
    ELSE ((pos.entry_price - price) * PctScale) \div pos.entry_price

(* the candidate stop of update_trailing_stop (lines 1160, 1177) *)
NewTrailingStop(pos, price, trailing_percentage) ==
    IF IsLong(pos)
    THEN (price * (100 - trailing_percentage)) \div 100
    ELSE (price * (100 + trailing_percentage)) \div 100

(* the replacement test of update_trailing_stop (lines 1162, 1179) *)
TrailingImproves(pos, new_trailing_stop) ==
    \/ ~pos.trailing_stop_active
    \/ IF IsLong(pos)
       THEN new_trailing_stop > pos.trailing_stop_price
       ELSE new_trailing_stop < pos.trailing_stop_price

(* update_trailing_stop without the new-high and the improvement tests:    *)
(* the stop follows the price both ways                                    *)
update_trailing_stop_following(w, symbol) ==
    IF ~HasPos(w, symbol) THEN { Ret(w, FALSE) }
    ELSE IF ~w.rm.lim.trailing_stop_enabled THEN { Ret(w, FALSE) }
    ELSE UNION {
        IF current_price = NoPrice THEN { Ret(Emit(w, "trailing_update", symbol, 0), FALSE) }
        ELSE LET pos == w.ap[symbol]
                 new_trailing_stop == NewTrailingStop(pos, current_price, w.rm.lim.trailing_stop_percentage)
                 w0 == Emit(w, "trailing_update", symbol, 0)
             IN  { Ret(w3, TRUE) : w3 \in
                     set_stop_loss([ w0 EXCEPT !.ap[symbol].max_profit = ProfitPct(pos, current_price),
                                               !.ap[symbol].max_profit_price = current_price,
                                               !.ap[symbol].trailing_stop_price = new_trailing_stop,
                                               !.ap[symbol].trailing_stop_active = TRUE ],
                                   symbol, new_trailing_stop) }
        : current_price \in get_current_price(w, symbol) }

update_trailing_stop(w, symbol) ==
    IF ~HasPos(w, symbol) THEN { Ret(w, FALSE) }
    ELSE IF ~w.rm.lim.trailing_stop_enabled THEN { Ret(w, FALSE) }
    ELSE UNION {
        IF current_price = NoPrice THEN { Ret(Emit(w, "trailing_update", symbol, 0), FALSE) }
        ELSE LET pos == w.ap[symbol]
                 profit_percentage == ProfitPct(pos, current_price)
                 new_trailing_stop == NewTrailingStop(pos, current_price, w.rm.lim.trailing_stop_percentage)
                 w0 == Emit(w, "trailing_update", symbol, 0)
             IN  IF profit_percentage > pos.max_profit
                 THEN LET w1 == [ w0 EXCEPT !.ap[symbol].max_profit = profit_percentage,
                                            !.ap[symbol].max_profit_price = current_price ]
                      IN  IF TrailingImproves(pos, new_trailing_stop)
                          THEN { Ret(w3, TRUE) : w3 \in
                                   set_stop_loss([ w1 EXCEPT !.ap[symbol].trailing_stop_price = new_trailing_stop,
                                                             !.ap[symbol].trailing_stop_active = TRUE ],
                                                 symbol, new_trailing_stop) }
                          ELSE { Ret(w1, TRUE) }
                 ELSE { Ret(w0, TRUE) }
        : current_price \in get_current_price(w, symbol) }

(* adverse excursion from the entry, in basis points (lines 1210-1213) *)
LossPct(pos, price) ==
    IF IsLong(pos)
    THEN ((pos.entry_price - price) * PctScale) \div pos.entry_price
    ELSE ((price - pos.entry_price) * PctScale) \div pos.entry_price

(* margin_used * leverage * pct / 100, pct in basis points, result in cents *)
EstimatedPnL(pos, pct) == (pos.margin_used * pos.leverage * pct) \div PctScale

EmergencyTriggered(pos, price, lim) == LossPct(pos, price) >= lim.emergency_stop_loss * 100

check_emergency_stop(w, symbol) ==
    IF ~HasPos(w, symbol) THEN { Ret(w, FALSE) }
    ELSE UNION {
        IF current_price = NoPrice THEN { Ret(Emit(w, "emergency_check", symbol, 0), FALSE) }
        ELSE LET position == w.ap[symbol]
                 loss_percentage == LossPct(position, current_price)
                 w0 == Emit(w, "emergency_check", symbol, 0)
             IN  IF EmergencyTriggered(position, current_price, w.rm.lim)
                 THEN { Ret(record_trade_result(w1, symbol, position.order_id,
                                                0 - EstimatedPnL(position, loss_percentage), FALSE), TRUE)
                        : w1 \in close_position_market(Emit(w0, "emergency", symbol, 0), symbol) }
                 ELSE { Ret(w0, FALSE) }
        : current_price \in get_current_price(w, symbol) }

(* sorted(targets.items()) : the keys in ascending order *)
RECURSIVE Sorted(_)
Sorted(S) ==
    IF S = {} THEN << >>
    ELSE LET m == CHOOSE x \in S : \A y \in S : x <= y
         IN  <<m>> \o Sorted(S \ {m})

(* the crossing test of check_target_reached_by_price (lines 1615-1620) *)
TargetReached(pos, target_price, current_price) ==
    IF IsLong(pos) THEN current_price >= target_price
    ELSE current_price <= target_price

(* NewlyFilled without the "already filled" test of line 1610 *)
NewlyFilledAgain(pos, current_price) ==
    { n \in DOMAIN pos.targets : TargetReached(pos, pos.targets[n], current_price) }

(* the targets one pass of the loop at lines 1609-1633 marks as filled *)
NewlyFilled(pos, current_price) ==
    { n \in DOMAIN pos.targets :
        n \notin pos.filled_targets /\ TargetReached(pos, pos.targets[n], current_price) }

RECURSIVE EmitAll(_,_,_,_)
EmitAll(w, e, symbol, nums) ==
    IF nums = << >> THEN w
    ELSE EmitAll(Emit(w, e, symbol, Head(nums)), e, symbol, Tail(nums))

check_target_reached_by_price(w, symbol) ==
    IF ~HasPos(w, symbol) THEN { Ret(w, FALSE) }
    ELSE IF DOMAIN w.ap[symbol].targets = {} THEN { Ret(w, FALSE) }
    ELSE UNION {
        IF current_price = NoPrice THEN { Ret(Emit(w, "target_check", symbol, 0), FALSE) }
        ELSE LET pos == w.ap[symbol]
                 newly_filled == NewlyFilled(pos, current_price)
                 closed == IF w.rm.lim.partial_close_enabled
                           THEN newly_filled \cap DOMAIN pos.tp_orders
                           ELSE {}
                 executed == [ n \in (DOMAIN pos.partial_close_executed) \cup closed |->
                                 IF n \in closed THEN pos.tp_orders[n].partial_percentage
                                 ELSE pos.partial_close_executed[n] ]
                 w1 == EmitAll(Emit([ w EXCEPT !.ap[symbol].filled_targets = @ \cup newly_filled,
                                               !.ap[symbol].partial_close_executed = executed ],
                                    "target_check", symbol, 0),
                               "target_reached", symbol, Sorted(newly_filled))
                 after_breakeven ==
                     IF pos.breakeven_target \in newly_filled
                        /\ ~pos.sl_moved_to_breakeven /\ w.bot.auto_breakeven
                     THEN move_sl_to_breakeven(w1, symbol)
                     ELSE { w1 }
                 after_trailing ==
                     IF w.rm.lim.trailing_stop_enabled
                     THEN Bind(after_breakeven, LAMBDA b : update_trailing_stop(b, symbol))
                     ELSE after_breakeven
             IN  IF newly_filled # {}
                 THEN { Ret(t, TRUE) : t \in after_trailing }
                 ELSE { Ret(w1, FALSE) }
        : current_price \in get_current_price(w, symbol) }

(* one iteration of the loop over tp_orders in check_filled_orders         *)
(* (lines 1684-1715)                                                       *)
CheckTpOrder(w, symbol, target_num) ==
    LET position == w.ap[symbol]
        tp_order_info == position.tp_orders[target_num]
    IN  IF target_num \in position.filled_targets THEN { w }
        ELSE UNION {
            IF ~filled THEN { Emit(w, "poll_tp", symbol, target_num) }
            ELSE LET profit_pct == ProfitPct(position, position.targets[target_num])
                     estimated_profit ==
                         (EstimatedPnL(position, profit_pct) * tp_order_info.partial_percentage) \div 100
                     w1 == Emit(Emit([ w EXCEPT !.ap[symbol].filled_targets = @ \cup {target_num} ],
                                     "poll_tp", symbol, target_num),
                                "tp_filled", symbol, target_num)
                     w2 == record_trade_result(w1, symbol, position.order_id, estimated_profit, TRUE)
                 IN  IF target_num = position.breakeven_target
                        /\ ~position.sl_moved_to_breakeven /\ w.bot.auto_breakeven
                     THEN move_sl_to_breakeven(w2, symbol)
                     ELSE { w2 }
            : filled \in is_order_filled(w, symbol, tp_order_info.order_id) }

RECURSIVE CheckTpOrders(_,_,_)
CheckTpOrders(w, symbol, nums) ==
    IF nums = << >> THEN { w }
    ELSE UNION { CheckTpOrders(w1, symbol, Tail(nums)) : w1 \in CheckTpOrder(w, symbol, Head(nums)) }

(* the stop-loss poll of check_filled_orders (lines 1717-1737).  A signal  *)
(* without stop_loss leaves None in the position: the subtraction raises,  *)
(* and the handler's except clause ends the tick.                          *)
CheckSlOrder(w, symbol) ==
    LET position == w.ap[symbol]
    IN  IF position.sl_order_id = None THEN { w }
        ELSE UNION {
            IF ~filled THEN { Emit(w, "poll_sl", symbol, 0) }
            ELSE LET w1 == Emit(Emit([ w EXCEPT !.venue[symbol] = NoPrice ], "poll_sl", symbol, 0),
                                "sl_filled", symbol, 0)
                 IN  IF position.stop_loss = NoPrice
                     THEN { Emit(w1, "error", symbol, 0) }
                     ELSE { remove_position(
                              record_trade_result(w1, symbol, position.order_id,
                                  0 - EstimatedPnL(position, LossPct(position, position.stop_loss)), FALSE),
                              symbol) }
            : filled \in is_order_filled(w, symbol, position.sl_order_id) }

(* what check_filled_orders does once the emergency stop has not fired *)
AfterEmergency(w, symbol) ==
    LET after_targets == check_target_reached_by_price(w, symbol)
        after_trailing == IF w.rm.lim.trailing_stop_enabled
                          THEN Bind(after_targets, LAMBDA t : update_trailing_stop(t, symbol))
                          ELSE after_targets
        after_tp == Bind(after_trailing,
                         LAMBDA t : CheckTpOrders(t, symbol, Sorted(DOMAIN t.ap[symbol].tp_orders)))
    IN  Bind(after_tp, LAMBDA t : CheckSlOrder(t, symbol))

(* check_filled_orders without the return after a fired emergency stop *)
check_filled_orders_no_return(w, symbol) ==
    IF ~HasPos(w, symbol) THEN { w }
    ELSE Bind(check_emergency_stop(w, symbol),
              LAMBDA e : IF HasPos(e, symbol) THEN AfterEmergency(e, symbol) ELSE { e })

check_filled_orders(w, symbol) ==
    IF ~HasPos(w, symbol) THEN { w }
    ELSE Bind(check_emergency_stop(w, symbol),
              LAMBDA e : IF e.ret THEN { e } ELSE AfterEmergency(e, symbol))

----------------------------------------------------------------------------
(* Ladder setup and registration *)

(* the lotSizeFilter the venue reports: quantities are in thousandths *)
SymbolInfo == [ qtyStep |-> 1, minOrderQty |-> 1, maxOrderQty |-> 0 ]

(* the ROUND_DOWN quantize of format_quantity (lines 2284-2286) *)
RoundDownToStep(qty, symbol_info) ==
    IF symbol_info.qtyStep > 0
    THEN (qty \div symbol_info.qtyStep) * symbol_info.qtyStep
    ELSE qty

(* format_quantity: round down to the step, then clamp to min and max *)
format_quantity(qty, symbol_info) ==
    LET stepped == RoundDownToStep(qty, symbol_info)
        raised == IF symbol_info.minOrderQty > 0 /\ stepped < symbol_info.minOrderQty
                  THEN symbol_info.minOrderQty ELSE stepped
    IN  IF symbol_info.maxOrderQty > 0 /\ raised > symbol_info.maxOrderQty
        THEN symbol_info.maxOrderQty ELSE raised

(* the validation of set_take_profit (lines 1069-1074): TRUE when rejected *)
InvalidTP(pos, target_price) ==
    \/ IsLong(pos) /\ target_price <= pos.entry_price
    \/ pos.position_type = "short" /\ target_price >= pos.entry_price

(* set_take_profit without the validation of lines 1069-1074 *)
set_take_profit_unchecked(w, symbol, target_num, target_price, partial_percentage) ==
    IF ~HasPos(w, symbol) THEN { Ret(w, FALSE) }
    ELSE UNION {
        IF current_position_size <= 0
        THEN { Ret(Emit(w, "tp_skipped", symbol, target_num), FALSE) }
        ELSE LET tp_qty == (current_position_size * partial_percentage) \div 100
                 tp_qty_formatted == format_quantity(tp_qty, SymbolInfo)
             IN  IF tp_qty_formatted = 0
                 THEN { Ret(Emit(w, "tp_skipped", symbol, target_num), FALSE) }
                 ELSE { IF ok
                        THEN Ret(Emit([ w EXCEPT !.ap[symbol].tp_orders =
                                          [ n \in (DOMAIN @) \cup {target_num} |->
                                              IF n = target_num
                                              THEN [ order_id |-> target_num,
                                                     partial_percentage |-> partial_percentage,
                                                     quantity |-> tp_qty_formatted ]
                                              ELSE @[n] ] ],
                                      "tp_set", symbol, target_num), TRUE)
                        ELSE Ret(Emit(w, "tp_rejected", symbol, target_num), FALSE)
                        : ok \in GatewayAnswers }
        : current_position_size \in get_current_position_size(w, symbol) }

set_take_profit(w, symbol, target_num, target_price, partial_percentage) ==
    IF ~HasPos(w, symbol) THEN { Ret(w, FALSE) }
    ELSE IF InvalidTP(w.ap[symbol], target_price)
    THEN { Ret(Emit(w, "invalid_tp", symbol, target_num), FALSE) }
    ELSE UNION {
        IF current_position_size <= 0
        THEN { Ret(Emit(w, "tp_skipped", symbol, target_num), FALSE) }
        ELSE LET tp_qty == (current_position_size * partial_percentage) \div 100
                 tp_qty_formatted == format_quantity(tp_qty, SymbolInfo)
             IN  IF tp_qty_formatted = 0
                 THEN { Ret(Emit(w, "tp_skipped", symbol, target_num), FALSE) }
                 ELSE { IF ok
                        THEN Ret(Emit([ w EXCEPT !.ap[symbol].tp_orders =
                                          [ n \in (DOMAIN @) \cup {target_num} |->
                                              IF n = target_num
                                              THEN [ order_id |-> target_num,
                                                     partial_percentage |-> partial_percentage,
                                                     quantity |-> tp_qty_formatted ]
                                              ELSE @[n] ] ],
                                      "tp_set", symbol, target_num), TRUE)
                        ELSE Ret(Emit(w, "tp_rejected", symbol, target_num), FALSE)
                        : ok \in GatewayAnswers }
        : current_position_size \in get_current_position_size(w, symbol) }

(* partial_targets[min(idx, len-1)] if partial_targets else 100, idx from 0 *)
PartialPercentage(lim, idx) ==
    IF lim.partial_close_enabled
    THEN IF Len(lim.partial_close_targets) > 0
         THEN lim.partial_close_targets[Min(idx, Len(lim.partial_close_targets) - 1) + 1]
         ELSE 100
    ELSE 100

RECURSIVE SetupTargets(_,_,_,_)
SetupTargets(w, symbol, nums, idx) ==
    IF nums = << >> THEN { w }
    ELSE UNION { SetupTargets([ w1 EXCEPT !.acc = @ + (IF w1.ret THEN 1 ELSE 0) ],
                              symbol, Tail(nums), idx + 1)
                 : w1 \in set_take_profit(w, symbol, Head(nums),
                                          w.ap[symbol].signal_targets[Head(nums)],
                                          PartialPercentage(w.rm.lim, idx)) }

setup_tp_sl_orders(w, symbol) ==
    IF ~HasPos(w, symbol) THEN { Ret(w, FALSE) }
    ELSE UNION {
        IF current_size <= 0 THEN { Ret(Emit(w, "setup_no_size", symbol, 0), FALSE) }
        ELSE LET position == w.ap[symbol]
                 after_tp == SetupTargets([ w EXCEPT !.acc = 0 ], symbol,
                                          Sorted(DOMAIN position.signal_targets), 0)
                 after_sl == IF position.signal_stop_loss # NoPrice
                             THEN UNION { { [ w2 EXCEPT !.acc = @ + (IF w2.ret THEN 1 ELSE 0) ]
                                            : w2 \in set_stop_loss(w1, symbol, position.signal_stop_loss) }
                                          : w1 \in after_tp }
                             ELSE after_tp
             IN  { Ret(w3, w3.acc > 0) : w3 \in after_sl }
        : current_size \in get_current_position_size(w, symbol) }

(* the position_info dict of add_position.  signal_targets and             *)
(* signal_stop_loss are position['signal']['targets'] and ['stop_loss'].   *)
NewPosition(symbol, signal, order_id, lim) ==
    [ symbol |-> symbol,
      order_id |-> order_id,
      signal_targets |-> signal.targets,
      signal_stop_loss |-> signal.stop_loss,
      entry_price |-> signal.entry_price,
      position_type |-> signal.position_type,
      targets |-> signal.targets,
      stop_loss |-> signal.stop_loss,
      filled_targets |-> {},
      sl_moved_to_breakeven |-> FALSE,
      tp_orders |-> << >>,
      sl_order_id |-> None,
      breakeven_target |-> lim.breakeven_target_choice,
      trailing_stop_active |-> FALSE,
      trailing_stop_price |-> NoPrice,
      max_profit |-> 0,
      max_profit_price |-> NoPrice,
      partial_close_executed |-> << >>,
      position_size |-> signal.position_size,
      leverage |-> signal.leverage,
      margin_used |-> signal.margin_used ]

(* w.sleep says what time.sleep(2) of line 944 does: "no" when the handler *)
(* runs alone, "yield" when other threads may run meanwhile; the world     *)
(* then comes back "sleeping" and the executor resumes at line 945.        *)
add_position(w, symbol, signal, order_id) ==
    LET w1 == Emit([ w EXCEPT !.ap = [ x \in (DOMAIN w.ap) \cup {symbol} |->
                                         IF x = symbol
                                         THEN NewPosition(symbol, signal, order_id, w.rm.lim)
                                         ELSE w.ap[x] ] ],
                   "added", symbol, 0)
    IN  IF w.sleep = "yield"
        THEN { [ w1 EXCEPT !.sleep = "sleeping" ] }
        ELSE { Ret(w2, TRUE) : w2 \in setup_tp_sl_orders(w1, symbol) }

----------------------------------------------------------------------------
(* TelegramTradingBot: sizing and execute_trade *)

MaxPositionSize == 100000       \* max_position_size, cents

BotInit ==
    [ auto_tp_sl |-> TRUE,
      auto_breakeven |-> TRUE,
      position_size_type |-> "fixed",
      percentage_of_balance |-> 10,
      risk_percent |-> 2,
      default_amount |-> DefaultAmount,
      default_leverage |-> DefaultLeverage,
      max_position_size |-> MaxPositionSize,
      monitoring_active |-> FALSE ]

(* what get_wallet_balance can return: None, or the account's balances.    *)
(* success = FALSE stands for None.                                        *)
NoBalanceInfo ==
    [ success |-> FALSE, totalAvailableBalance |-> 0, totalWalletBalance |-> 0, totalMarginBalance |-> 0 ]

BalanceAnswers ==
    { NoBalanceInfo,
      [ success |-> TRUE, totalAvailableBalance |-> 100000, totalWalletBalance |-> 100000,
        totalMarginBalance |-> 50000 ] }

update_peak_balance(r, current_balance) ==
    IF current_balance > r.peak_balance THEN [ r EXCEPT !.peak_balance = current_balance ] ELSE r

(* get_wallet_balance's effect on the ledger (line 2177) *)
AfterBalanceFetch(w, info) ==
    IF info.success THEN [ w EXCEPT !.rm = update_peak_balance(@, info.totalWalletBalance) ] ELSE w

(* get_margin_info: the margin level of a balance answer, or Unknown *)
MarginLevel(info) ==
    IF ~info.success THEN Unknown
    ELSE IF info.totalMarginBalance > 0
    THEN (info.totalAvailableBalance * 100) \div info.totalMarginBalance
    ELSE 100

(* the Kelly test of RiskManager.calculate_position_size (line 377);       *)
(* win_rate is in basis points                                             *)
KellyApplies(r) == r.win_rate > 50 * 100 /\ r.average_win > 0 /\ r.average_loss > 0

KellyCap == 2500                \* 0.25, in basis points (line 383)

(* kelly_fraction without the cap of line 383 *)
KellyFractionUncapped(r) ==
    LET win_prob == r.win_rate
        loss_prob == PctScale - win_prob
        kelly_fraction == win_prob - (loss_prob * r.average_loss) \div r.average_win
    IN  Max(0, kelly_fraction)

(* kelly_fraction of lines 378-383, in basis points:                       *)
(* (p * R - q) / R with R = average_win / average_loss is p - q / R        *)
KellyFraction(r) ==
    LET win_prob == r.win_rate
        loss_prob == PctScale - win_prob
        kelly_fraction == win_prob - (loss_prob * r.average_loss) \div r.average_win
    IN  Max(0, Min(kelly_fraction, KellyCap))

(* the amount before the Kelly step (lines 367-374) *)
BaseAmount(r, balance, risk_percentage) ==
    (balance * Min(risk_percentage, r.lim.max_position_percentage)) \div 100

(* RiskManager.calculate_position_size *)
rm_calculate_position_size(r, balance, risk_percentage) ==
    LET position_size == BaseAmount(r, balance, risk_percentage)
    IN  IF KellyApplies(r)
        THEN Min(position_size, (balance * KellyFraction(r)) \div PctScale)
        ELSE position_size

(* calculate_position_size without the max_position_percentage limit *)
calculate_position_size_unlimited(b, r, balance, entry_price, symbol_info) ==
    LET chosen == IF b.position_size_type = "percentage"
                  THEN (balance * b.percentage_of_balance) \div 100
                  ELSE IF b.position_size_type = "dynamic"
                  THEN rm_calculate_position_size(r, balance, b.risk_percent)
                  ELSE Min(b.default_amount, balance)
        value == chosen * b.default_leverage
        position_value == IF value > b.max_position_size THEN b.max_position_size ELSE value
        amount_to_use == IF value > b.max_position_size
                         THEN b.max_position_size \div b.default_leverage ELSE chosen
    IN  [ margin_required |-> amount_to_use,
          position_value |-> position_value,
          quantity |-> format_quantity((position_value * 1000) \div entry_price, symbol_info),
          leverage |-> b.default_leverage ]

(* TelegramTradingBot.calculate_position_size; amounts in cents, the       *)
(* quantity in thousandths                                                 *)
calculate_position_size(b, r, balance, entry_price, symbol_info) ==
    LET chosen == IF b.position_size_type = "percentage"
                  THEN (balance * b.percentage_of_balance) \div 100
                  ELSE IF b.position_size_type = "dynamic"
                  THEN rm_calculate_position_size(r, balance, b.risk_percent)
                  ELSE Min(b.default_amount, balance)
        max_allowed == (balance * r.lim.max_position_percentage) \div 100
        limited == IF chosen > max_allowed THEN max_allowed ELSE chosen
        value == limited * b.default_leverage
        position_value == IF value > b.max_position_size THEN b.max_position_size ELSE value
        amount_to_use == IF value > b.max_position_size
                         THEN b.max_position_size \div b.default_leverage ELSE limited
    IN  [ margin_required |-> amount_to_use,
          position_value |-> position_value,
          quantity |-> format_quantity((position_value * 1000) \div entry_price, symbol_info),
          leverage |-> b.default_leverage ]

(* execute_trade from the order placement on, registering the position    *)
(* whatever the venue answers                                              *)
PlaceOpeningOrderRegistersAnyway(w, signal, position_calc) ==
    { IF ok
      THEN { Ret([ w2 EXCEPT !.bot.monitoring_active = TRUE ], TRUE)
             : w2 \in add_position(Emit([ w EXCEPT !.oid = w.oid + 1, !.rm.total_trades_today = @ + 1 ],
                                        "open_order", signal.symbol, 0),
                                   signal.symbol, signal, w.oid + 1) }
      ELSE { Ret(w2, FALSE)
             : w2 \in add_position(Emit([ w EXCEPT !.rm.failed_trades_today = @ + 1 ],
                                        "open_rejected", signal.symbol, 0),
                                   signal.symbol, signal, w.oid + 1) }
      : ok \in GatewayAnswers }

(* execute_trade from the order placement on (lines 2566-2662) *)
PlaceOpeningOrder(w, signal, position_calc) ==
    { IF ok
      THEN LET oid == w.oid + 1
               filled_signal == [ signal EXCEPT !.position_size = position_calc.quantity,
                                                !.leverage = position_calc.leverage,
                                                !.margin_used = position_calc.margin_required ]
               w1 == Emit([ w EXCEPT !.oid = oid, !.rm.total_trades_today = @ + 1 ],
                          "open_order", signal.symbol, 0)
           IN  IF w.bot.auto_tp_sl \/ w.bot.auto_breakeven \/ w.rm.lim.trailing_stop_enabled
               THEN { IF w2.sleep = "sleeping" THEN w2
                      ELSE Ret([ w2 EXCEPT !.bot.monitoring_active = TRUE ], TRUE)
                      : w2 \in add_position(w1, signal.symbol, filled_signal, oid) }
               ELSE { Ret(w1, TRUE) }
      ELSE { Ret(Emit([ w EXCEPT !.rm.failed_trades_today = @ + 1 ],
                      "open_rejected", signal.symbol, 0), FALSE),
             Ret(Emit(w, "open_raised", signal.symbol, 0), FALSE) }
      : ok \in GatewayAnswers }

(* execute_trade that asks the gate and goes on whatever it answers *)
execute_trade_with_ungated(w, signal, balance_info, margin_balance, symbol_info) ==
        LET open_positions_count == Cardinality(DOMAIN w.ap)
            w1 == AfterBalanceFetch(AfterBalanceFetch(w, balance_info), margin_balance)
            margin_level == MarginLevel(margin_balance)
            gate == check_trading_allowed(w1.rm, w1.now, balance_info.totalAvailableBalance,
                                          margin_level, open_positions_count)
            w2 == IF balance_info.success
                  THEN Emit([ w1 EXCEPT !.rm = gate.rm ],
                            IF gate.allowed THEN "gate_allowed" ELSE "gate_denied", signal.symbol, 0)
                  ELSE w1
            position_calc == calculate_position_size(w2.bot, w2.rm,
                                 balance_info.totalAvailableBalance, signal.entry_price,
                                 symbol_info)
        IN  IF ~balance_info.success THEN { Ret(w2, FALSE) }
            ELSE IF balance_info.totalAvailableBalance <= 0 THEN { Ret(w2, FALSE) }
            ELSE IF position_calc.quantity <= 0 THEN { Ret(w2, FALSE) }
            ELSE UNION PlaceOpeningOrder(w2, signal, position_calc)

(* execute_trade from get_wallet_balance on (lines 2487-2665), for the     *)
(* open_positions_count it read at line 2484 and given answers of          *)
(* get_wallet_balance (twice: the balance and get_margin_info) and         *)
(* get_symbol_info                                                         *)
execute_trade_counted(w, signal, open_positions_count, balance_info, margin_balance, symbol_info) ==
        LET w1 == AfterBalanceFetch(AfterBalanceFetch(w, balance_info), margin_balance)
            margin_level == MarginLevel(margin_balance)
            gate == check_trading_allowed(w1.rm, w1.now, balance_info.totalAvailableBalance,
                                          margin_level, open_positions_count)
            w2 == IF balance_info.success
                  THEN Emit([ w1 EXCEPT !.rm = gate.rm ],
                            IF gate.allowed THEN "gate_allowed" ELSE "gate_denied", signal.symbol, 0)
                  ELSE w1
            position_calc == calculate_position_size(w2.bot, w2.rm,
                                 balance_info.totalAvailableBalance, signal.entry_price,
                                 symbol_info)
        IN  IF balance_info.success /\ ~gate.allowed THEN { Ret(w2, FALSE) }
            ELSE IF margin_level # Unknown /\ margin_level < w2.rm.lim.auto_deleverage_threshold
            THEN { Ret(w2, FALSE) }
            ELSE IF ~balance_info.success THEN { Ret(w2, FALSE) }
            ELSE IF balance_info.totalAvailableBalance <= 0 THEN { Ret(w2, FALSE) }
            ELSE IF position_calc.quantity <= 0 THEN { Ret(w2, FALSE) }
            ELSE UNION PlaceOpeningOrder(w2, signal, position_calc)

(* execute_trade running alone: nothing registers a position between the  *)
(* count of line 2484 and the gate                                         *)
execute_trade_with(w, signal, balance_info, margin_balance, symbol_info) ==
    execute_trade_counted(w, signal, Cardinality(DOMAIN w.ap), balance_info, margin_balance,
                          symbol_info)

execute_trade(w, signal) ==
    UNION { UNION { execute_trade_with(w, signal, balance_info, margin_balance, SymbolInfo)
                    : margin_balance \in BalanceAnswers }
            : balance_info \in BalanceAnswers }

----------------------------------------------------------------------------
(* Signals, initial state and actions *)

LongTargets == <<11000, 12000>>
ShortTargets == <<9000, 8000>>

MakeSignal(symbol, position_type, targets, stop_loss) ==
    [ symbol |-> symbol, position_type |-> position_type, entry_price |-> EntryPrice,
      targets |-> targets, stop_loss |-> stop_loss,
      position_size |-> 0, leverage |-> DefaultLeverage, margin_used |-> 0 ]

Signals ==
    { MakeSignal(s, "long", LongTargets, sl) : s \in Symbols, sl \in {9500, NoPrice} }
    \cup { MakeSignal(s, "short", ShortTargets, sl) : s \in Symbols, sl \in {10500} }

(* what the ticker can answer during a handler on a position: a price     *)
(* beyond the emergency threshold of its direction, the stop price of the  *)
(* signals, the two targets, or no answer                                  *)
LongPrices == {4900, 9500, 11000, 12000}
ShortPrices == {15100, 10500, 9000, 8000}
TickPrices(pos) == (IF IsLong(pos) THEN LongPrices ELSE ShortPrices) \cup {NoPrice}

(* The threads of the process: the signal executor, the monitor thread of  *)
(* start_monitoring and the request threads of the two manual routes.      *)
Threads == { "executor", "monitor", "close_route", "breakeven_route" }

Idle == [ pc |-> "idle", symbol |-> None, oid |-> 0, pnl |-> 0 ]

NoSizing == [ done |-> FALSE ]

(* no method was called directly in the last step *)
NoCall == [ op |-> None, symbol |-> None, ret |-> FALSE, trace |-> << >>, before |-> None, frame |-> None ]

World(p) ==
    [ ap |-> active_positions, rm |-> rm, hist |-> trade_history, venue |-> venue,
      bot |-> bot, now |-> now, oid |-> next_order_id, px |-> p,
      log |-> << >>, trace |-> << >>, ret |-> FALSE, acc |-> 0, sleep |-> "no" ]

(* start_monitoring (lines 1840-1843): a monitor thread is started when    *)
(* the handler found monitoring_active False and set it                    *)
ThreadsAfter(w) ==
    monitor_threads + (IF w.bot.monitoring_active /\ ~bot.monitoring_active THEN 1 ELSE 0)

Commit(w) ==
    /\ active_positions' = w.ap
    /\ rm' = w.rm
    /\ trade_history' = w.hist
    /\ venue' = w.venue
    /\ bot' = w.bot
    /\ next_order_id' = w.oid
    /\ log' = w.log
    /\ call' = NoCall
    /\ monitor_threads' = ThreadsAfter(w)
    /\ UNCHANGED <<now, threads, closing_orders, sizing, limit_access>>

(* the state after construction, for a trading configuration and a ledger *)
InitState(b, r) ==
    /\ active_positions = << >>
    /\ rm = r
    /\ trade_history = << >>
    /\ venue = [ s \in Symbols |-> NoPrice ]
    /\ bot = b
    /\ now = 0
    /\ next_order_id = 0
    /\ log = << >>
    /\ threads = [ t \in Threads |-> Idle ]
    /\ closing_orders = [ oid \in 1..MaxOrders |-> 0 ]
    /\ sizing = NoSizing
    /\ call = NoCall
    /\ monitor_threads = 0
    /\ limit_access = [ written |-> 0, settings |-> None, seen |-> << >> ]

Init ==
    \E trailing \in BOOLEAN :
      InitState(BotInit, [ RiskManagerInit EXCEPT !.lim.trailing_stop_enabled = trailing ])

(* TradeExecutor entry point: one signal *)
ExecuteTrade ==
    /\ next_order_id < MaxOrders
    /\ rm.failed_trades_today < MaxTrades
    /\ \E signal \in Signals :
         \E w \in execute_trade(World(EntryPrice), signal) : Commit(w)

(* one pass of the _monitor_positions loop body for one tracked symbol *)
MonitorTick ==
    /\ bot.monitoring_active
    /\ rm.total_trades < MaxTrades
    /\ \E symbol \in DOMAIN active_positions :
         \E p \in TickPrices(active_positions[symbol]) :
           \E w \in check_filled_orders(World(p), symbol) : Commit(w)

Next ==
    \/ ExecuteTrade
    \/ MonitorTick

Spec == Init /\ [][Next]_vars

TypeOK ==
    /\ DOMAIN active_positions \subseteq Symbols
    /\ rm.total_trades \in Nat
    /\ next_order_id \in 0..MaxOrders

----------------------------------------------------------------------------
(* The risk gate on its own: the ledger is driven by trade outcomes, the   *)
(* clock, balance fetches and settings updates, and the gate is evaluated  *)
(* on the states they reach.                                               *)

(* a settings dictionary with lower limits than the defaults *)
TightLimits ==
    [ DefaultLimits EXCEPT !.max_daily_loss = 20000,
                           !.max_weekly_loss = 10000,
                           !.max_consecutive_losses = 2,
                           !.max_daily_trades = 2,
                           !.cooldown_after_losses = 45,
                           !.min_margin_level = 120,
                           !.auto_deleverage_threshold = 140 ]

SettingsChoices == { DefaultLimits, TightLimits }

(* realised outcomes reported to the ledger, cents *)
Outcomes == { 5000, 0 - 10000 }

(* arguments of check_trading_allowed *)
GateBalances == { Unknown, 0, 40000, 85000 }
GateMargins == { Unknown, 100, 130, 200 }
GateCounts == { 0, 5 }

(* check_trading_allowed called with one combination of arguments *)
Evaluate ==
    \E balance \in GateBalances : \E margin_level \in GateMargins :
      \E open_positions_count \in GateCounts :
        LET gate == check_trading_allowed(rm, now, balance, margin_level, open_positions_count)
        IN  /\ rm' = gate.rm
            /\ UNCHANGED <<active_positions, trade_history, venue, bot, now, next_order_id, log, threads, closing_orders, sizing, call, monitor_threads, limit_access>>

(* record_trade_result called with one outcome *)
RecordTrade ==
    /\ rm.total_trades < MaxTrades
    /\ \E profit_loss \in Outcomes : \E symbol \in Symbols :
         Commit(record_trade_result(World(NoPrice), symbol, 0, profit_loss, profit_loss > 0))

(* get_wallet_balance succeeded: the peak balance follows the wallet *)
FetchBalance ==
    /\ rm' = update_peak_balance(rm, 100000)
    /\ rm' # rm
    /\ UNCHANGED <<active_positions, trade_history, venue, bot, now, next_order_id, log, threads, closing_orders, sizing, call, monitor_threads, limit_access>>

(* POST /api/risk-settings *)
UpdateRiskSettings ==
    /\ \E settings \in SettingsChoices :
         /\ rm' = update_settings(rm, settings)
         /\ rm' # rm
    /\ UNCHANGED <<active_positions, trade_history, venue, bot, now, next_order_id, log, threads, closing_orders, sizing, call, monitor_threads, limit_access>>

(* the times at which the handlers run: half an hour after the start, and *)
(* each midnight                                                           *)
ClockTimes == { 30 } \cup { d * MinutesPerDay : d \in Days }

(* the wall clock moves on *)
AdvanceClock ==
    /\ \E t \in ClockTimes : t > now /\ now' = t
    /\ UNCHANGED <<active_positions, rm, trade_history, venue, bot, next_order_id, log, threads, closing_orders, sizing, call, monitor_threads, limit_access>>

NextGate ==
    \/ Evaluate
    \/ RecordTrade
    \/ FetchBalance
    \/ UpdateRiskSettings
    \/ AdvanceClock

InitGate == Init /\ ~rm.lim.trailing_stop_enabled

SpecGate == InitGate /\ [][NextGate]_vars

----------------------------------------------------------------------------
(* Sizing on its own: the executor sizes one signal under every            *)
(* configuration, ledger, balance and lot filter below.                    *)

(* Trading configurations: the three sizing modes, two leverages, two      *)
(* absolute maxima and two risk percentages; no ladder is set up           *)
SizerBots ==
    { [ BotInit EXCEPT !.position_size_type = mode, !.default_leverage = leverage,
                       !.max_position_size = max_size, !.risk_percent = risk,
                       !.auto_tp_sl = FALSE, !.auto_breakeven = FALSE ]
      : mode \in { "fixed", "percentage", "dynamic" }, leverage \in { 1, DefaultLeverage },
        max_size \in { 5000, MaxPositionSize }, risk \in { 2, 40 } }

(* wins, losses, total profit and total loss of the ledgers sized on *)
SizerTallies ==
    { <<0, 0, 0, 0>>, <<1, 1, 5000, 10000>>, <<2, 1, 10000, 10000>>, <<2, 1, 20000, 2500>>,
      <<3, 2, 30000, 20000>>, <<3, 0, 15000, 0>> }

SizerLedgers ==
    { RecordStatistics([ RiskManagerInit EXCEPT !.lim.trailing_stop_enabled = FALSE,
                                                !.total_trades = t[1] + t[2],
                                                !.winning_trades = t[1], !.losing_trades = t[2],
                                                !.total_profit = t[3], !.total_loss = t[4] ])
      : t \in SizerTallies }

(* available balances, in cents *)
SizerBalances == { 2000, 100000, 200000 }

(* lot filters: a fine step, and a whole-contract step with and without a  *)
(* minimum order quantity                                                  *)
SizerSymbolInfos ==
    { SymbolInfo,
      [ qtyStep |-> 1000, minOrderQty |-> 1000, maxOrderQty |-> 0 ],
      [ qtyStep |-> 1000, minOrderQty |-> 0, maxOrderQty |-> 0 ] }

BalanceOf(balance) ==
    [ success |-> TRUE, totalAvailableBalance |-> balance, totalWalletBalance |-> balance,
      totalMarginBalance |-> balance \div 2 ]

InitSizer == \E b \in SizerBots : \E r \in SizerLedgers : InitState(b, r)

(* execute_trade on one signal; sizing keeps what the sizing step saw and  *)
(* returned and whether an opening order was accepted                      *)
SizeTrade ==
    /\ next_order_id < MaxOrders
    /\ rm.failed_trades_today < MaxTrades
    /\ \E balance \in SizerBalances : \E symbol_info \in SizerSymbolInfos :
         LET signal == MakeSignal("BTCUSDT", "long", LongTargets, 9500)
             w0 == World(EntryPrice)
         IN  \E w \in execute_trade_with(w0, signal, BalanceOf(balance), BalanceOf(balance),
                                         symbol_info) :
               /\ active_positions' = w.ap
               /\ rm' = w.rm
               /\ trade_history' = w.hist
               /\ venue' = w.venue
               /\ bot' = w.bot
               /\ next_order_id' = w.oid
               /\ log' = w.log
               /\ sizing' = [ done |-> TRUE,
                              balance |-> balance,
                              entry_price |-> signal.entry_price,
                              symbol_info |-> symbol_info,
                              dynamic_amount |->
                                  rm_calculate_position_size(rm, balance, bot.risk_percent),
                              calc |-> calculate_position_size(bot, rm, balance,
                                                               signal.entry_price, symbol_info),
                              opened |-> w.oid > next_order_id ]
               /\ monitor_threads' = ThreadsAfter(w)
               /\ UNCHANGED <<now, threads, closing_orders, call, limit_access>>

NextSizer == SizeTrade

SpecSizer == InitSizer /\ [][NextSizer]_vars

----------------------------------------------------------------------------
(* The gate with its two manual routes: outcomes are recorded, the clock   *)
(* moves, the gate is evaluated, and the daily reset (the route and the    *)
(* midnight thread) and the unlock route are called in between.            *)

(* POST /api/risk/reset-daily, and daily_reset_thread at midnight *)
ResetDaily ==
    /\ rm' = reset_daily_stats(rm)
    /\ rm' # rm
    /\ UNCHANGED <<active_positions, trade_history, venue, bot, now, next_order_id, log, threads, closing_orders, sizing, call, monitor_threads, limit_access>>

(* POST /api/risk/unlock *)
UnlockTrading ==
    /\ rm' = unlock_trading(rm)
    /\ rm' # rm
    /\ UNCHANGED <<active_positions, trade_history, venue, bot, now, next_order_id, log, threads, closing_orders, sizing, call, monitor_threads, limit_access>>

NextRoutes ==
    \/ Evaluate
    \/ RecordTrade
    \/ AdvanceClock
    \/ ResetDaily
    \/ UnlockTrading

SpecRoutes == InitGate /\ [][NextRoutes]_vars

(* the same routes once POST /api/risk-settings has set the losing streak  *)
(* that locks trading to one trade                                         *)
InitStreak ==
    InitState(BotInit, update_settings(RiskManagerInit,
                                       [ DefaultLimits EXCEPT !.max_consecutive_losses = 1 ]))

SpecStreak == InitStreak /\ [][NextRoutes]_vars

----------------------------------------------------------------------------
(* The risk data file and the restart of the process.  record_trade_result *)
(* (line 439), update_peak_balance (532) and update_settings (565) end     *)
(* with save_risk_data, so the file always holds the ledger of the state.  *)

(* save_risk_data: what json.dump writes (lines 248-291) *)
save_risk_data(r) ==
    [ daily_losses |-> r.daily_losses,
      weekly_losses |-> r.weekly_losses,
      consecutive_losses |-> r.consecutive_losses,
      total_trades_today |-> r.total_trades_today,
      failed_trades_today |-> r.failed_trades_today,
      last_trade_time |-> r.last_trade_time,
      settings |-> r.lim,
      statistics |-> [ total_profit |-> r.total_profit,
                       total_loss |-> r.total_loss,
                       total_trades |-> r.total_trades,
                       winning_trades |-> r.winning_trades,
                       losing_trades |-> r.losing_trades,
                       peak_balance |-> r.peak_balance,
                       current_drawdown |-> r.current_drawdown,
                       largest_win |-> r.largest_win,
                       largest_loss |-> r.largest_loss,
                       average_win |-> r.average_win,
                       average_loss |-> r.average_loss,
                       profit_factor |-> r.profit_factor,
                       sharpe_ratio |-> r.sharpe_ratio,
                       win_rate |-> r.win_rate ] ]

(* load_risk_data: the attributes it assigns from the file (lines 204-237): *)
(* the settings and eight of the statistics; the loss accumulators, the    *)
(* streak and the counters of the day are read into self.data only         *)
load_risk_data(data) ==
    [ lim |-> data.settings,
      total_profit |-> data.statistics.total_profit,
      total_loss |-> data.statistics.total_loss,
      total_trades |-> data.statistics.total_trades,
      winning_trades |-> data.statistics.winning_trades,
      losing_trades |-> data.statistics.losing_trades,
      peak_balance |-> data.statistics.peak_balance,
      largest_win |-> data.statistics.largest_win,
      largest_loss |-> data.statistics.largest_loss ]

(* RiskManager.__init__ on the file: load_risk_data runs FIRST (line 149)  *)
(* and the assignments of the defaults follow it (lines 150-195), so an    *)
(* attribute keeps the loaded value only where no default is assigned      *)
RiskManagerRestart(data) == RiskManagerInit @@ load_risk_data(data)

(* the process is stopped and started again: a new RiskManager is built on *)
(* the file, the PositionManager starts without positions and threads      *)
Restart ==
    /\ Len(trade_history) < MaxTrades
    /\ rm' = RiskManagerRestart(save_risk_data(rm))
    /\ rm' # rm
    /\ active_positions' = << >>
    /\ bot' = [ bot EXCEPT !.monitoring_active = FALSE ]
    /\ log' = << >>
    /\ threads' = [ t \in DOMAIN threads |-> Idle ]
    /\ call' = NoCall
    /\ monitor_threads' = 0
    /\ UNCHANGED <<trade_history, venue, now, next_order_id, closing_orders, sizing, limit_access>>

SpecRestart ==
    InitGate /\ [][Evaluate \/ RecordTrade \/ FetchBalance \/ UpdateRiskSettings \/ Restart]_vars

----------------------------------------------------------------------------
(* The handlers under the scheduling of the process: the clock keeps       *)
(* moving, and the monitor loop, which sleeps 10 seconds between two       *)
(* passes (line 1884), keeps ticking for as long as the behaviour lasts.   *)

NextLive ==
    \/ ExecuteTrade
    \/ MonitorTick
    \/ AdvanceClock

SpecLive ==
    Init /\ [][NextLive]_vars /\ WF_vars(AdvanceClock) /\ []<><<MonitorTick>>_vars

----------------------------------------------------------------------------
(* Signals that keep arriving: the executor takes a signal whether or not  *)
(* its symbol is tracked already.                                          *)

RepeatSignal ==
    /\ next_order_id < MaxSignals
    /\ rm.failed_trades_today < MaxTrades
    /\ \E signal \in Signals :
         \E w \in execute_trade(World(EntryPrice), signal) : Commit(w)

NextRepeat ==
    \/ RepeatSignal
    \/ MonitorTick

SpecRepeat == InitGate /\ [][NextRepeat]_vars

----------------------------------------------------------------------------
(* The handlers as threads.  The process serves requests in threads        *)
(* (async_mode='threading'), the monitor loop is a thread of its own and   *)
(* PositionManager holds no lock, so a handler can be overtaken wherever   *)
(* it waits: in time.sleep(2) of add_position and in the gateway calls of  *)
(* close_position_market and move_sl_to_breakeven.  Each action below is   *)
(* the stretch of a handler between two such waits.                        *)

At(t, symbol, order_id, pc) == [ pc |-> pc, symbol |-> symbol, oid |-> order_id, pnl |-> 0 ]

RECURSIVE CountEv(_, _)
CountEv(l, e) ==
    IF l = << >> THEN 0 ELSE (IF Head(l).ev = e THEN 1 ELSE 0) + CountEv(Tail(l), e)

(* the step of thread t ends in world w with the thread at st; order_id is *)
(* the position the step's closing orders, if any, were sent for           *)
CommitThread(w, t, st, order_id) ==
    /\ active_positions' = w.ap
    /\ rm' = w.rm
    /\ trade_history' = w.hist
    /\ venue' = w.venue
    /\ bot' = w.bot
    /\ next_order_id' = w.oid
    /\ log' = w.log
    /\ threads' = [ threads EXCEPT ![t] = st ]
    /\ closing_orders' = IF order_id \in DOMAIN closing_orders
                         THEN [ closing_orders EXCEPT
                                  ![order_id] = @ + CountEv(w.log, "market_close") ]
                         ELSE closing_orders
    /\ monitor_threads' = ThreadsAfter(w)
    /\ UNCHANGED <<now, sizing, call, limit_access>>

(* execute_trade up to the sleep of add_position: the position is          *)
(* registered and its ladder is not set up yet                             *)
ExecutorRegister ==
    /\ threads["executor"].pc = "idle"
    /\ next_order_id < MaxOrders
    /\ rm.failed_trades_today < MaxTrades
    /\ \E signal \in Signals :
         \E w \in execute_trade([ World(EntryPrice) EXCEPT !.sleep = "yield" ], signal) :
           CommitThread([ w EXCEPT !.sleep = "no" ], "executor",
                        IF w.sleep = "sleeping"
                        THEN At("executor", signal.symbol, w.oid, "sleep")
                        ELSE Idle, 0)

(* add_position after the sleep, then start_monitoring *)
ExecutorSetup ==
    /\ threads["executor"].pc = "sleep"
    /\ \E w \in setup_tp_sl_orders(World(EntryPrice), threads["executor"].symbol) :
         CommitThread([ w EXCEPT !.bot.monitoring_active = TRUE ], "executor", Idle, 0)

(* a tick of the monitor thread up to the size close_position_market reads *)
(* for a fired emergency stop; a tick without emergency runs to its end    *)
MonitorCheck ==
    /\ bot.monitoring_active
    /\ threads["monitor"].pc = "idle"
    /\ rm.total_trades < MaxTrades
    /\ \E symbol \in DOMAIN active_positions :
         LET position == active_positions[symbol]
         IN  \E p \in TickPrices(position) :
               IF p # NoPrice /\ EmergencyTriggered(position, p, rm.lim)
               THEN LET estimated_loss == EstimatedPnL(position, LossPct(position, p))
                        w0 == Emit(Emit(World(p), "emergency_check", symbol, 0),
                                   "emergency", symbol, 0)
                    IN  \E c \in close_position_check(w0, symbol) :
                          IF c.ret
                          THEN CommitThread(c, "monitor",
                                            [ At("monitor", symbol, position.order_id, "closing")
                                                EXCEPT !.pnl = 0 - estimated_loss ], 0)
                          ELSE CommitThread(
                                 Ret(record_trade_result(c, symbol, position.order_id,
                                                         0 - estimated_loss, FALSE), TRUE),
                                 "monitor", Idle, 0)
               ELSE \E w \in check_filled_orders(World(p), symbol) :
                      CommitThread(w, "monitor", Idle, position.order_id)

(* the emergency stop from its closing order to the loss it records *)
MonitorClose ==
    /\ threads["monitor"].pc = "closing"
    /\ LET th == threads["monitor"]
       IN  \E w \in close_position_send(World(NoPrice), th.symbol) :
             CommitThread(Ret(record_trade_result(w, th.symbol, th.oid, th.pnl, FALSE), TRUE),
                          "monitor", Idle, th.oid)

(* /api/positions/close up to the size close_position_market reads *)
CloseRouteCheck ==
    /\ threads["close_route"].pc = "idle"
    /\ \E symbol \in DOMAIN active_positions :
         \E c \in close_position_check(World(NoPrice), symbol) :
           CommitThread(c, "close_route",
                        IF c.ret
                        THEN At("close_route", symbol, active_positions[symbol].order_id, "closing")
                        ELSE Idle, 0)

(* /api/positions/close from the closing order it places *)
CloseRouteSend ==
    /\ threads["close_route"].pc = "closing"
    /\ LET th == threads["close_route"]
       IN  \E w \in close_position_send(World(NoPrice), th.symbol) :
             CommitThread(w, "close_route", Idle, th.oid)

(* /api/positions/breakeven: the request enters move_sl_to_breakeven *)
BreakevenRouteBegin ==
    /\ threads["breakeven_route"].pc = "idle"
    /\ \E symbol \in DOMAIN active_positions :
         /\ ~active_positions[symbol].sl_moved_to_breakeven
         /\ CommitThread(World(NoPrice), "breakeven_route",
                         At("breakeven_route", symbol, active_positions[symbol].order_id, "moving"),
                         0)

(* /api/positions/breakeven: the stop is cancelled and set again *)
BreakevenRouteEnd ==
    /\ threads["breakeven_route"].pc = "moving"
    /\ \E w \in move_sl_to_breakeven(World(NoPrice), threads["breakeven_route"].symbol) :
         CommitThread(w, "breakeven_route", Idle, 0)

NextThreads ==
    \/ ExecutorRegister
    \/ ExecutorSetup
    \/ MonitorCheck
    \/ MonitorClose
    \/ CloseRouteCheck
    \/ CloseRouteSend
    \/ BreakevenRouteBegin
    \/ BreakevenRouteEnd

SpecThreads == InitGate /\ [][NextThreads]_vars

(* the threads that are inside a handler working on the symbol *)
InProgress(symbol) == { t \in Threads : threads[t].pc # "idle" /\ threads[t].symbol = symbol }

----------------------------------------------------------------------------
(* The executor and the methods of the ladder called directly, on any      *)
(* instrument, tracked or not: the manual routes call                      *)
(* move_sl_to_breakeven, close_position_market and update_trailing_stop    *)
(* with the symbol of the request (lines 3123, 3140, 3157).  The methods   *)
(* no route reaches, check_emergency_stop and setup_tp_sl_orders, run on a *)
(* tracked instrument inside execute_trade and the monitor pass; here they *)
(* are called on the instruments that are not tracked.  The signals are    *)
(* the long signal of Signals that has a stop, and the same signal with    *)
(* its first target below the entry price; the wallet answers as in       *)
(* BalanceAnswers, or with an available balance above the wallet balance   *)
(* (unrealised profit), or with a margin level of 100% when the margin is  *)
(* read.  The trailing stop is enabled, and the ticker is down or answers  *)
(* the price of the first target.                                          *)

CallOperation ==
    /\ rm.total_trades < MaxTrades
    /\ \E symbol \in Symbols :
         \E op \in { "move_sl_to_breakeven", "update_trailing_stop", "close_position_market" }
                   \cup (IF symbol \in DOMAIN active_positions THEN { }
                         ELSE { "check_emergency_stop", "setup_tp_sl_orders" })
                   \cup (IF next_order_id < MaxOrders /\ rm.failed_trades_today < MaxTrades
                         THEN { "execute_trade" } ELSE { }) :
           \E p \in IF symbol \in DOMAIN active_positions /\ op = "update_trailing_stop"
                     THEN { NoPrice, LongTargets[2] }
                     ELSE IF op = "execute_trade" THEN { EntryPrice } ELSE { NoPrice } :
             \E w \in CASE op = "move_sl_to_breakeven" -> move_sl_to_breakeven(World(p), symbol)
                        [] op = "update_trailing_stop" -> update_trailing_stop(World(p), symbol)
                        [] op = "check_emergency_stop" -> check_emergency_stop(World(p), symbol)
                        [] op = "close_position_market" -> close_position_market(World(p), symbol)
                        [] op = "setup_tp_sl_orders" -> setup_tp_sl_orders(World(p), symbol)
                        [] op = "execute_trade" ->
                             UNION { execute_trade_with(World(p),
                                                        MakeSignal(symbol, "long", targets, 9500),
                                                        balance_info, margin_balance, SymbolInfo)
                                     : targets \in { LongTargets, <<9000, 12000>> },
                                       balance_info \in BalanceAnswers
                                           \cup { [ success |-> TRUE,
                                                    totalAvailableBalance |-> 120000,
                                                    totalWalletBalance |-> 100000,
                                                    totalMarginBalance |-> 120000 ] },
                                       margin_balance \in (BalanceAnswers \ { NoBalanceInfo })
                                           \cup { [ success |-> TRUE,
                                                    totalAvailableBalance |-> 50000,
                                                    totalWalletBalance |-> 100000,
                                                    totalMarginBalance |-> 50000 ] } } :
               /\ active_positions' = w.ap
               /\ rm' = w.rm
               /\ trade_history' = w.hist
               /\ venue' = w.venue
               /\ bot' = w.bot
               /\ next_order_id' = w.oid
               /\ log' = w.log
               /\ call' = [ op |-> op, symbol |-> symbol, ret |-> w.ret, trace |-> w.trace,
                            before |-> IF symbol \in DOMAIN active_positions
                                       THEN [ tracked |-> TRUE,
                                              sl_moved_to_breakeven |->
                                                  active_positions[symbol].sl_moved_to_breakeven ]
                                       ELSE [ tracked |-> FALSE ],
                            frame |-> [ positions |-> w.ap = active_positions,
                                        ledger |-> w.rm = rm /\ w.hist = trade_history,
                                        venue |-> w.venue = venue,
                                        monitoring |-> w.bot = bot ] ]
               /\ monitor_threads' = ThreadsAfter(w)
               /\ UNCHANGED <<now, threads, closing_orders, sizing, limit_access>>

InitCalls == Init /\ rm.lim.trailing_stop_enabled

SpecCalls == InitCalls /\ [][CallOperation]_vars

----------------------------------------------------------------------------
(* The monitor loop over two tracked instruments, with the manual          *)
(* start and stop of the monitoring.                                       *)

(* the instruments of the loop, in the order they were registered *)
LoopSymbols == <<"BTCUSDT", "ETHUSDT">>

(* two signals were executed: a long without stop on the first instrument  *)
(* and a long with a stop on the second; both positions are registered,    *)
(* their orders are not placed yet, the trailing stop is enabled and the   *)
(* executor started the loop.                                              *)
InitLoop ==
    /\ active_positions =
         [ symbol \in { LoopSymbols[i] : i \in DOMAIN LoopSymbols } |->
             NewPosition(symbol,
                         [ MakeSignal(symbol, "long", LongTargets,
                                      IF symbol = LoopSymbols[1] THEN NoPrice ELSE 9500)
                             EXCEPT !.position_size = 10000, !.margin_used = DefaultAmount ],
                         IF symbol = LoopSymbols[1] THEN 1 ELSE 2,
                         DefaultLimits) ]
    /\ rm = [ RiskManagerInit EXCEPT !.lim.trailing_stop_enabled = TRUE, !.total_trades_today = 2 ]
    /\ trade_history = << >>
    /\ venue = [ symbol \in { LoopSymbols[i] : i \in DOMAIN LoopSymbols } |-> NoPrice ]
    /\ bot = [ BotInit EXCEPT !.monitoring_active = TRUE ]
    /\ now = 0
    /\ next_order_id = 2
    /\ log = << >>
    /\ threads = [ t \in Threads |-> Idle ]
    /\ closing_orders = [ oid \in 1..MaxOrders |-> 0 ]
    /\ sizing = NoSizing
    /\ call = NoCall
    /\ monitor_threads = 1
    /\ limit_access = [ written |-> 0, settings |-> None, seen |-> << >> ]

(* the for loop of _monitor_positions over active_symbols (lines 1870-1882): *)
(* check_filled_orders on each symbol in turn; the ticker is down or       *)
(* answers the price of the first target                                   *)
(* the for loop without the try of lines 1871-1882 and 1739: the error of  *)
(* one symbol ends the pass                                                *)
RECURSIVE monitor_pass_unguarded(_, _)
monitor_pass_unguarded(w, active_symbols) ==
    IF active_symbols = << >> \/ (\E i \in DOMAIN w.trace : w.trace[i].ev = "error") THEN { w }
    ELSE LET checked == UNION { check_filled_orders([ w EXCEPT !.px = p ], Head(active_symbols))
                                : p \in { NoPrice, 11000 } }
         IN  UNION { monitor_pass_unguarded(w1, Tail(active_symbols)) : w1 \in checked }

RECURSIVE monitor_pass(_, _)
monitor_pass(w, active_symbols) ==
    IF active_symbols = << >> THEN { w }
    ELSE LET checked == UNION { check_filled_orders([ w EXCEPT !.px = p ], Head(active_symbols))
                                : p \in { NoPrice, 11000 } }
         IN  UNION { monitor_pass(w1, Tail(active_symbols)) : w1 \in checked }

(* one pass of the while loop of a monitor thread that is not blocked *)
MonitorPass ==
    /\ bot.monitoring_active
    /\ monitor_threads > (IF threads["monitor"].pc = "blocked" THEN 1 ELSE 0)
    /\ rm.total_trades < MaxTrades
    /\ LET active_symbols == SelectSeq(LoopSymbols, LAMBDA symbol : symbol \in DOMAIN active_positions)
       IN  \E w \in monitor_pass(World(NoPrice), active_symbols) :
             /\ active_positions' = w.ap
             /\ rm' = w.rm
             /\ trade_history' = w.hist
             /\ venue' = w.venue
             /\ bot' = w.bot
             /\ next_order_id' = w.oid
             /\ log' = w.log
             /\ call' = [ op |-> "_monitor_positions", symbol |-> None, ret |-> FALSE,
                          trace |-> w.trace, before |-> active_symbols, frame |-> None ]
             /\ UNCHANGED <<now, threads, closing_orders, sizing, monitor_threads, limit_access>>

(* a pass in which the venue never answers the first call made for the     *)
(* first tracked symbol: the thread stays inside check_filled_orders       *)
GatewayHang ==
    /\ bot.monitoring_active
    /\ monitor_threads > 0
    /\ threads["monitor"].pc = "idle"
    /\ \E i \in DOMAIN LoopSymbols :
         /\ LoopSymbols[i] \in DOMAIN active_positions
         /\ \A j \in 1..(i - 1) : LoopSymbols[j] \notin DOMAIN active_positions
         /\ threads' = [ threads EXCEPT !["monitor"] =
                           At("monitor", LoopSymbols[i], active_positions[LoopSymbols[i]].order_id,
                              "blocked") ]
    /\ call' = NoCall
    /\ UNCHANGED <<active_positions, rm, trade_history, venue, bot, now, next_order_id, log,
                   closing_orders, sizing, monitor_threads, limit_access>>

(* /api/positions/monitoring/start and the executor: start_monitoring *)
StartMonitoring ==
    /\ ~bot.monitoring_active
    /\ monitor_threads < MaxMonitorThreads
    /\ bot' = [ bot EXCEPT !.monitoring_active = TRUE ]
    /\ monitor_threads' = monitor_threads + 1
    /\ call' = NoCall
    /\ UNCHANGED <<active_positions, rm, trade_history, venue, now, next_order_id, log,
                   threads, closing_orders, sizing, limit_access>>

(* /api/positions/monitoring/stop: stop_monitoring clears the flag and     *)
(* waits one second for the thread, which sleeps ten between two passes    *)
StopMonitoring ==
    /\ bot.monitoring_active
    /\ bot' = [ bot EXCEPT !.monitoring_active = FALSE ]
    /\ call' = NoCall
    /\ UNCHANGED <<active_positions, rm, trade_history, venue, now, next_order_id, log,
                   threads, closing_orders, sizing, monitor_threads, limit_access>>

(* a monitor thread that is not blocked reads monitoring_active False at   *)
(* the head of its while loop and ends                                     *)
MonitorExit ==
    /\ ~bot.monitoring_active
    /\ monitor_threads > (IF threads["monitor"].pc = "blocked" THEN 1 ELSE 0)
    /\ monitor_threads' = monitor_threads - 1
    /\ call' = NoCall
    /\ UNCHANGED <<active_positions, rm, trade_history, venue, bot, now, next_order_id, log,
                   threads, closing_orders, sizing, limit_access>>

NextLoop ==
    \/ MonitorPass
    \/ GatewayHang
    \/ StartMonitoring
    \/ StopMonitoring
    \/ MonitorExit

(* a thread that is not blocked ends once the monitoring is off, and keeps *)
(* passing for as long as it is on                                         *)
SpecLoop ==
    /\ InitLoop
    /\ [][NextLoop]_vars
    /\ WF_vars(MonitorExit)
    /\ \/ []<><<MonitorPass>>_vars
       \/ <>[](\/ ~bot.monitoring_active
               \/ monitor_threads <= (IF threads["monitor"].pc = "blocked" THEN 1 ELSE 0))

----------------------------------------------------------------------------
(* The risk limits under the request threads: update_settings assigns the  *)
(* limits one attribute after the other (lines 544-563) while              *)
(* check_trading_allowed, on the executor's thread, reads them one after   *)
(* the other (lines 308-350); no lock is taken by either.                  *)

(* the attributes in the order update_settings assigns them *)
UpdateOrder ==
    << "max_daily_loss", "max_weekly_loss", "max_consecutive_losses", "max_daily_trades",
       "max_loss_percentage", "cooldown_after_losses", "breakeven_target_choice",
       "min_margin_level", "max_open_positions", "max_position_percentage",
       "trailing_stop_enabled", "trailing_stop_percentage", "partial_close_enabled",
       "partial_close_targets", "emergency_stop_loss", "profit_protection_percentage",
       "auto_deleverage_threshold", "drawdown_limit" >>

(* the limits in the order check_trading_allowed reads them when every     *)
(* check is made                                                           *)
GateReads ==
    << "max_daily_loss", "max_weekly_loss", "max_consecutive_losses", "cooldown_after_losses",
       "max_daily_trades", "max_open_positions", "max_loss_percentage", "drawdown_limit",
       "min_margin_level", "auto_deleverage_threshold" >>

(* the next assignment of update_settings; the first one takes the         *)
(* settings of the request                                                 *)
SettingsWrite ==
    \E settings \in IF limit_access.written = 0 THEN SettingsChoices \ { rm.lim }
                    ELSE { limit_access.settings } :
      LET attribute == UpdateOrder[limit_access.written + 1]
      IN  /\ rm' = [ rm EXCEPT !.lim[attribute] = settings[attribute] ]
          /\ limit_access' =
               IF limit_access.written + 1 = Len(UpdateOrder)
               THEN [ limit_access EXCEPT !.written = 0, !.settings = None ]
               ELSE [ limit_access EXCEPT !.written = @ + 1, !.settings = settings ]
          /\ UNCHANGED <<active_positions, trade_history, venue, bot, now, next_order_id, log,
                         threads, closing_orders, sizing, call, monitor_threads>>

(* the next read of check_trading_allowed; a finished evaluation is        *)
(* followed by a new one                                                   *)
EvaluateRead ==
    LET seen == IF Len(limit_access.seen) = Len(GateReads) THEN << >> ELSE limit_access.seen
        limit == GateReads[Len(seen) + 1]
    IN  /\ limit_access' = [ limit_access EXCEPT
                               !.seen = Append(seen, [ limit |-> limit, value |-> rm.lim[limit] ]) ]
        /\ UNCHANGED <<active_positions, rm, trade_history, venue, bot, now, next_order_id, log,
                       threads, closing_orders, sizing, call, monitor_threads>>

NextLimits ==
    \/ SettingsWrite
    \/ EvaluateRead

SpecLimits == InitGate /\ [][NextLimits]_vars

----------------------------------------------------------------------------
(* Signals for different instruments served at the same time.  Each POST   *)
(* /api/execute-signal runs execute_trade in a request thread of its own   *)
(* (line 3275); the executor counts the open positions first (line 2484)   *)
(* and then waits for the venue's balance, and nothing is locked between   *)
(* the count and add_position.  threads holds one request thread per       *)
(* instrument here.                                                        *)

(* one open position is allowed, set through POST /api/risk-settings *)
InitOpen ==
    /\ active_positions = << >>
    /\ rm = update_settings(RiskManagerInit, [ DefaultLimits EXCEPT !.max_open_positions = 1 ])
    /\ trade_history = << >>
    /\ venue = [ symbol \in { LoopSymbols[i] : i \in DOMAIN LoopSymbols } |-> NoPrice ]
    /\ bot = BotInit
    /\ now = 0
    /\ next_order_id = 0
    /\ log = << >>
    /\ threads = [ symbol \in { LoopSymbols[i] : i \in DOMAIN LoopSymbols } |-> Idle ]
    /\ closing_orders = [ oid \in 1..MaxOrders |-> 0 ]
    /\ sizing = NoSizing
    /\ call = NoCall
    /\ monitor_threads = 0
    /\ limit_access = [ written |-> 0, settings |-> None, seen |-> << >> ]

(* a signal arrives for the instrument: execute_trade reads                *)
(* len(active_positions) and goes to the venue for the balance             *)
SignalCounted ==
    /\ next_order_id < MaxSignals
    /\ rm.failed_trades_today < MaxTrades
    /\ \E symbol \in DOMAIN threads :
         /\ threads[symbol].pc = "idle"
         /\ threads' = [ threads EXCEPT ![symbol] =
                           [ pc |-> "balance", symbol |-> symbol, oid |-> 0, pnl |-> 0,
                             open_positions_count |-> Cardinality(DOMAIN active_positions) ] ]
    /\ UNCHANGED <<active_positions, rm, trade_history, venue, bot, now, next_order_id, log, closing_orders, sizing, call, monitor_threads, limit_access>>

(* the balance came back: the gate is asked with the count read before,    *)
(* the order is placed and the position registered.  The signals are longs *)
(* with three targets and a stop.                                          *)
SignalExecuted ==
    \E symbol \in DOMAIN threads :
      /\ threads[symbol].pc = "balance"
      /\ \E balance_info \in BalanceAnswers : \E margin_balance \in BalanceAnswers :
           \E w \in execute_trade_counted(World(EntryPrice),
                                          MakeSignal(symbol, "long", <<11000, 12000, 13000>>, 9500),
                                          threads[symbol].open_positions_count,
                                          balance_info, margin_balance, SymbolInfo) :
             /\ active_positions' = w.ap
             /\ rm' = w.rm
             /\ trade_history' = w.hist
             /\ venue' = w.venue
             /\ bot' = w.bot
             /\ next_order_id' = w.oid
             /\ log' = w.log
             /\ threads' = [ threads EXCEPT ![symbol] = Idle ]
             /\ monitor_threads' = ThreadsAfter(w)
             /\ UNCHANGED <<now, closing_orders, sizing, call, limit_access>>

SpecOpen == InitOpen /\ [][SignalCounted \/ SignalExecuted]_vars

----------------------------------------------------------------------------
(* Properties *)

LogHas(e) == \E i \in DOMAIN log : log[i].ev = e

OrderIds == 1..next_order_id

(* ledger records about the position opened by order oid *)
LossRecords(oid) == { i \in DOMAIN trade_history :
                        trade_history[i].order_id = oid /\ ~trade_history[i].is_win }
WinRecords(oid) == { i \in DOMAIN trade_history :
                       trade_history[i].order_id = oid /\ trade_history[i].is_win }

Tracked(symbol) == symbol \in DOMAIN active_positions

(* the same position is tracked for symbol before and after the step *)
SamePosition(symbol) ==
    /\ symbol \in DOMAIN active_positions
    /\ symbol \in DOMAIN active_positions'
    /\ active_positions[symbol].order_id = active_positions'[symbol].order_id

(* C1: a position whose emergency stop fired has exactly one loss record   *)
(* in the ledger, however often check_emergency_stop runs afterwards and   *)
(* whatever the gateway answers to the market close: no position ever has  *)
(* two loss records, and the tick in which the emergency stop fires ends   *)
(* with a loss record for the position.                                    *)
C1_EmergencyLossRecordedOnce ==
    /\ \A oid \in OrderIds : Cardinality(LossRecords(oid)) <= 1
    /\ LogHas("emergency") =>
         /\ trade_history # << >>
         /\ ~trade_history[Len(trade_history)].is_win

(* the checks of the gate, in their order; "cooldown" belongs to the       *)
(* consecutive-losses check and "drawdown" to the loss-percentage check,   *)
(* "auto_deleverage" to the margin check                                   *)
GateTags ==
    << "daily_loss", "weekly_loss", "consecutive_losses", "cooldown", "daily_trades",
       "open_positions", "loss_percentage", "drawdown", "margin_level", "auto_deleverage" >>

(* a balance is known when the venue reported one and it is positive *)
BalanceKnown(balance) == balance # Unknown /\ balance > 0

(* whether the check named tag is violated for the ledger r at time t *)
CheckViolated(tag, r, t, balance, margin_level, open_positions_count) ==
    CASE tag = "daily_loss" -> r.daily_losses[Today(t)] >= r.lim.max_daily_loss
      [] tag = "weekly_loss" -> r.weekly_losses[WeekStart(t)] >= r.lim.max_weekly_loss
      [] tag = "consecutive_losses" -> r.consecutive_losses >= r.lim.max_consecutive_losses
      [] tag = "cooldown" -> /\ r.consecutive_losses >= r.lim.max_consecutive_losses
                             /\ r.last_trade_time # NoTime
                             /\ t - r.last_trade_time < r.lim.cooldown_after_losses
      [] tag = "daily_trades" -> r.total_trades_today >= r.lim.max_daily_trades
      [] tag = "open_positions" -> open_positions_count >= r.lim.max_open_positions
      [] tag = "loss_percentage" -> /\ BalanceKnown(balance)
                                    /\ r.daily_losses[Today(t)] * 100 >= r.lim.max_loss_percentage * balance
      [] tag = "drawdown" -> /\ BalanceKnown(balance)
                             /\ r.peak_balance > 0
                             /\ (r.peak_balance - balance) * 100 > r.lim.drawdown_limit * r.peak_balance
      [] tag = "margin_level" -> margin_level # Unknown /\ margin_level < r.lim.min_margin_level
      [] tag = "auto_deleverage" -> margin_level # Unknown /\ margin_level < r.lim.auto_deleverage_threshold

(* the violated checks, in the order of the gate *)
ViolatedChecks(r, t, balance, margin_level, open_positions_count) ==
    SelectSeq(GateTags,
              LAMBDA tag : CheckViolated(tag, r, t, balance, margin_level, open_positions_count))

C3_StopFillRecordsLossAndCloses ==
    \A i \in DOMAIN log :
        log[i].ev = "sl_filled" =>
            /\ ~Tracked(log[i].sym)
            /\ \E j \in DOMAIN log : j > i /\ log[j].ev = "record"
            /\ trade_history # << >> /\ ~trade_history[Len(trade_history)].is_win

(* C4: every take-profit rung of a tracked position that has become filled *)
(* has exactly one win record in the ledger.                               *)
C4_FilledRungHasOneWinRecord ==
    \A symbol \in DOMAIN active_positions :
        LET pos == active_positions[symbol]
        IN  Cardinality(WinRecords(pos.order_id))
              = Cardinality(pos.filled_targets \cap DOMAIN pos.tp_orders)

(* the venue refused a stop placement or a cancel, or reported no size *)
GatewayRefusals == { "stop_rejected", "cancel_failed", "no_size" }

(* C5: with auto-breakeven on and a stop in place, the tick in which the   *)
(* price first crosses the breakeven-trigger target ends with              *)
(* sl_moved_to_breakeven set and a stop in force at the entry price or     *)
(* beyond it in the favourable direction, whenever the venue refuses no    *)
(* call of the tick.                                                       *)
C5_BreakevenOnFirstCrossing ==
    [][ \A symbol \in Symbols :
          ( /\ SamePosition(symbol)
            /\ bot.auto_breakeven
            /\ active_positions[symbol].sl_order_id # None
            /\ active_positions[symbol].breakeven_target \notin active_positions[symbol].filled_targets
            /\ \E i \in DOMAIN log' : /\ log'[i].ev = "target_reached"
                                      /\ log'[i].sym = symbol
                                      /\ log'[i].n = active_positions[symbol].breakeven_target
            /\ \A i \in DOMAIN log' : log'[i].ev \notin GatewayRefusals )
          => /\ active_positions'[symbol].sl_moved_to_breakeven
             /\ active_positions'[symbol].sl_order_id # None
             /\ venue'[symbol] # NoPrice
             /\ IF IsLong(active_positions[symbol])
                THEN venue'[symbol] >= active_positions[symbol].entry_price
                ELSE venue'[symbol] <= active_positions[symbol].entry_price ]_vars

(* C6: once trailing is active, the trailing stop price of a position only *)
(* moves in the favourable direction: up for a long, down for a short.     *)
C6_TrailingStopMonotonic ==
    [][ \A symbol \in Symbols :
          (SamePosition(symbol) /\ active_positions[symbol].trailing_stop_active)
          => /\ active_positions'[symbol].trailing_stop_active
             /\ IF IsLong(active_positions[symbol])
                THEN active_positions'[symbol].trailing_stop_price
                       >= active_positions[symbol].trailing_stop_price
                ELSE active_positions'[symbol].trailing_stop_price
                       <= active_positions[symbol].trailing_stop_price ]_vars

(* a later trailing update has run on a position whose trailing stop was   *)
(* already active at a price above the lowest candidate                    *)
C6_Witness ==
    \E symbol \in DOMAIN active_positions :
        /\ active_positions[symbol].trailing_stop_active
        /\ active_positions[symbol].max_profit >= 2000
        /\ LogHas("trailing_update")
        /\ ~LogHas("target_reached")

(* C7: a target index in filled_targets stays there while the position is  *)
(* tracked, and no later price check reports it as newly filled again.     *)
C7_FilledTargetsMonotonic ==
    [][ \A symbol \in Symbols :
          SamePosition(symbol)
          => /\ active_positions[symbol].filled_targets \subseteq active_positions'[symbol].filled_targets
             /\ \A i \in DOMAIN log' :
                  (log'[i].ev = "target_reached" /\ log'[i].sym = symbol)
                  => log'[i].n \notin active_positions[symbol].filled_targets ]_vars

(* a price check has run at a price beyond a target that was filled before *)
C7_Witness ==
    \E symbol \in DOMAIN active_positions :
        /\ active_positions[symbol].filled_targets # {}
        /\ LogHas("target_check")
        /\ ~LogHas("target_reached")
        /\ active_positions[symbol].max_profit >= 1000

(* C8: after every record call winning_trades + losing_trades equals       *)
(* total_trades.                                                           *)
C8_WinsPlusLossesEqualTotal ==
    rm.winning_trades + rm.losing_trades = rm.total_trades

(* both a win and a loss have been recorded *)
C8_Witness ==
    /\ rm.winning_trades >= 1
    /\ rm.losing_trades >= 1
    /\ LogHas("record")

(* C9: when a fill closes a position (stop-loss fill or emergency stop),   *)
(* the ledger record of the fill is written before the position is removed *)
(* from the open set.                                                      *)
C9_RecordBeforeRemoval ==
    \A i \in DOMAIN log :
        (log[i].ev = "removed" /\ (LogHas("emergency") \/ LogHas("sl_filled")))
        => \E j \in DOMAIN log : j < i /\ log[j].ev = "record"

TickChecks == { "target_check", "target_reached", "trailing_update",
                "poll_tp", "tp_filled", "poll_sl", "sl_filled" }

(* C10: in a tick the emergency-stop check comes first, and once it has    *)
(* fired the tick does no target check, trailing update or order poll.     *)
C10_EmergencyFirstAndExclusive ==
    /\ (\E i \in DOMAIN log : log[i].ev \in TickChecks \cup {"emergency"})
         => log[1].ev = "emergency_check"
    /\ LogHas("emergency") => \A i \in DOMAIN log : log[i].ev \notin TickChecks

(* the emergency stop fired on a position that stayed tracked: the venue   *)
(* rejected the market close, so the other checks could still have run     *)
C10_Witness ==
    /\ LogHas("emergency")
    /\ LogHas("market_close_rejected")
    /\ active_positions # << >>

(* C11: operations on one instrument are mutually exclusive: the executor  *)
(* between registering a position and finishing its ladder, the emergency  *)
(* close of a tick, a manual close and a manual breakeven request are      *)
(* never inside their handlers on the same symbol at the same time.        *)
C11_HandlersMutuallyExclusive ==
    \A symbol \in Symbols : Cardinality(InProgress(symbol)) <= 1

(* C12: for one tracked position the venue accepts at most one closing     *)
(* market order, whatever the interleaving of the emergency stop of the    *)
(* monitor thread and a manual close request.                              *)
C12_AtMostOneClosingOrder ==
    \A order_id \in DOMAIN closing_orders : closing_orders[order_id] <= 1

(* C13: at most one open position per instrument: while a symbol is        *)
(* tracked no step opens another position on it, so the tracked position   *)
(* (its order, filled_targets, tp_orders, sl_order_id) is never replaced   *)
(* by a newly registered one.                                              *)
C13_NoSecondPositionPerInstrument ==
    [][\A symbol \in DOMAIN active_positions :
         symbol \in DOMAIN active_positions'
           => active_positions'[symbol].order_id = active_positions[symbol].order_id]_vars

(* every target of the tracked position is in filled_targets *)
AllTargetsFilled(symbol) ==
    /\ symbol \in DOMAIN active_positions
    /\ active_positions[symbol].filled_targets = DOMAIN active_positions[symbol].targets

(* C14: once every target of a tracked position is filled, the position is *)
(* eventually removed from the open set by the ticks of the monitor loop,  *)
(* with no stop fill, emergency stop or manual close needed.               *)
C14_FilledLadderCloses ==
    \A symbol \in Symbols :
      AllTargetsFilled(symbol) ~> (symbol \notin DOMAIN active_positions)

(* C15: in every sizing mode the margin the sizer returns is at most       *)
(* balance * max_position_percentage / 100 and the position value is at    *)
(* most the configured absolute maximum.                                   *)
C15_SizeWithinLimits ==
    sizing.done =>
      /\ sizing.calc.margin_required * 100 <= sizing.balance * rm.lim.max_position_percentage
      /\ sizing.calc.position_value <= bot.max_position_size

C15_Witness ==
    /\ sizing.done
    /\ sizing.opened
    /\ bot.position_size_type = "dynamic"
    /\ sizing.calc.position_value = bot.max_position_size
    /\ sizing.calc.margin_required * bot.default_leverage = bot.max_position_size

C17_ZeroQuantityRejected ==
    (/\ sizing.done
     /\ RoundDownToStep((sizing.calc.position_value * 1000) \div sizing.entry_price,
                        sizing.symbol_info) <= 0)
      => ~sizing.opened

(* the checks other than the daily loss limit pass for these arguments *)
OnlyDailyLoss(r, t, balance, margin_level, open_positions_count) ==
    LET violated == ViolatedChecks(r, t, balance, margin_level, open_positions_count)
    IN  \A i \in DOMAIN violated : violated[i] = "daily_loss"

(* C18: when today's loss has reached the daily cap (the gate denies with  *)
(* the daily-loss reason) and reset_daily_stats is called, the next call   *)
(* of the gate on which no other check is violated allows trading.         *)
C18_ResetDailyReopensGate ==
    [][(/\ rm.daily_losses[Today(now)] >= rm.lim.max_daily_loss
        /\ rm' = reset_daily_stats(rm))
       => \A balance \in GateBalances : \A margin_level \in GateMargins :
            \A open_positions_count \in GateCounts :
              OnlyDailyLoss(rm', now', balance, margin_level, open_positions_count)
                => check_trading_allowed(rm', now', balance, margin_level,
                                         open_positions_count).allowed]_vars

(* the step is a call of the gate *)
IsEvaluate ==
    \E balance \in GateBalances : \E margin_level \in GateMargins :
      \E open_positions_count \in GateCounts :
        rm' = check_trading_allowed(rm, now, balance, margin_level, open_positions_count).rm

(* C19: a locked gate stays locked with its reason until a call of the     *)
(* gate: no other step unlocks it or changes the reason, so the gate is    *)
(* unlocked only when its most recent evaluation found no violation.       *)
C19_LockedUntilCleanEvaluate ==
    [][(/\ rm.is_trading_locked
        /\ \/ ~rm'.is_trading_locked
           \/ rm'.lock_reason # rm.lock_reason)
       => IsEvaluate]_vars

(* C20: a record call increments total_trades by one and exactly one of    *)
(* winning_trades and losing_trades; a win resets consecutive_losses and   *)
(* leaves the daily and weekly loss accumulators alone; a loss increments  *)
(* consecutive_losses and adds |profit_loss| to today's and this week's    *)
(* accumulator.                                                            *)
C20_RecordUpdatesCounters ==
    [][rm'.total_trades # rm.total_trades =>
        LET rec == trade_history'[Len(trade_history')]
            amount == Abs(rec.profit_loss)
        IN  /\ rm'.total_trades = rm.total_trades + 1
            /\ IF rec.is_win
               THEN /\ rm'.winning_trades = rm.winning_trades + 1
                    /\ rm'.losing_trades = rm.losing_trades
                    /\ rm'.consecutive_losses = 0
                    /\ rm'.daily_losses = rm.daily_losses
                    /\ rm'.weekly_losses = rm.weekly_losses
               ELSE /\ rm'.winning_trades = rm.winning_trades
                    /\ rm'.losing_trades = rm.losing_trades + 1
                    /\ rm'.consecutive_losses = rm.consecutive_losses + 1
                    /\ rm'.daily_losses = AddTo(rm.daily_losses, Today(now), amount)
                    /\ rm'.weekly_losses = AddTo(rm.weekly_losses, WeekStart(now), amount)]_vars

(* a win has been recorded after a loss, and a loss after that *)
C20_Witness ==
    /\ Len(trade_history) >= 2
    /\ ~trade_history[1].is_win
    /\ trade_history[2].is_win
    /\ rm.consecutive_losses = 0
    /\ rm.daily_losses[Today(0)] > 0

(* C21: a call of move_sl_to_breakeven on a position whose stop has been   *)
(* moved already returns True, produces no event (no cancel, no order)     *)
(* and leaves the tracked positions and the stops at the venue as they     *)
(* were.                                                                   *)
C21_BreakevenIdempotent ==
    (/\ call.op = "move_sl_to_breakeven"
     /\ call.before.tracked
     /\ call.before.sl_moved_to_breakeven)
      => /\ call.ret
         /\ call.trace = << >>
         /\ call.frame.positions
         /\ call.frame.venue

C21_Witness ==
    /\ call.op = "move_sl_to_breakeven"
    /\ call.before.tracked
    /\ call.before.sl_moved_to_breakeven
    /\ venue[call.symbol] # NoPrice

(* the running call produced event e for rung n *)
Traced(e, n) == \E i \in DOMAIN call.trace : call.trace[i].ev = e /\ call.trace[i].n = n

(* C22: when execute_trade registers a position and setup_tp_sl_orders     *)
(* reads its size, every rung of the signal is attempted once whatever     *)
(* happened to the rungs before it, and so is the stop: a rung on the      *)
(* wrong side of the entry price or refused by the venue gets no order,    *)
(* and every rung the venue accepts has its order.                         *)
C22_FailedRungSkippedAlone ==
    (/\ call.op = "execute_trade"
     /\ Traced("added", 0)
     /\ ~Traced("setup_no_size", 0)
     /\ call.symbol \in DOMAIN active_positions)
      => LET pos == active_positions[call.symbol]
         IN  /\ \A n \in DOMAIN pos.signal_targets :
                  /\ Cardinality({ i \in DOMAIN call.trace :
                                     /\ call.trace[i].n = n
                                     /\ call.trace[i].ev \in { "invalid_tp", "tp_skipped",
                                                               "tp_rejected", "tp_set" } }) = 1
                  /\ Traced("invalid_tp", n) <=> InvalidTP(pos, pos.signal_targets[n])
                  /\ Traced("tp_set", n) <=> n \in DOMAIN pos.tp_orders
             /\ pos.signal_stop_loss # NoPrice =>
                  \/ Traced("invalid_sl", 0)
                  \/ Traced("no_size", 0)
                  \/ Traced("stop_rejected", 0)
                  \/ Traced("stop_set", 0) /\ venue[call.symbol] = pos.signal_stop_loss

C22_Witness ==
    /\ call.op = "execute_trade"
    /\ Traced("invalid_tp", 1)
    /\ Traced("tp_set", 2)
    /\ Traced("stop_set", 0)
    /\ DOMAIN active_positions[call.symbol].tp_orders = {2}

(* C23: a pass of the monitor loop calls check_filled_orders on every      *)
(* instrument that was tracked when the pass began, whatever errors and    *)
(* refusals the instruments before it met, and the loop is still running   *)
(* after the pass.                                                         *)
C23_PassReachesEveryInstrument ==
    call.op = "_monitor_positions" =>
      /\ \A i \in DOMAIN call.before :
           \E j \in DOMAIN call.trace :
             call.trace[j].ev = "emergency_check" /\ call.trace[j].sym = call.before[i]
      /\ bot.monitoring_active
      /\ monitor_threads >= 1

C23_Witness ==
    /\ call.op = "_monitor_positions"
    /\ call.before = LoopSymbols
    /\ \E i, j \in DOMAIN call.trace :
         /\ i < j
         /\ call.trace[i].ev = "error" /\ call.trace[i].sym = LoopSymbols[1]
         /\ call.trace[j].ev = "emergency_check" /\ call.trace[j].sym = LoopSymbols[2]

(* C24: while a monitor thread is blocked inside the handler of one        *)
(* instrument, every other tracked instrument is eventually reached by a   *)
(* pass of the loop, unless the monitoring is stopped or the instrument is *)
(* closed by hand first.                                                   *)
C24_BlockedCallDoesNotStarveOthers ==
    \A i \in DOMAIN LoopSymbols :
      (/\ threads["monitor"].pc = "blocked"
       /\ threads["monitor"].symbol # LoopSymbols[i]
       /\ LoopSymbols[i] \in DOMAIN active_positions)
        ~> \/ /\ call.op = "_monitor_positions"
              /\ \E k \in DOMAIN call.before : call.before[k] = LoopSymbols[i]
           \/ ~bot.monitoring_active
           \/ LoopSymbols[i] \notin DOMAIN active_positions

(* C25: at most one monitor thread is alive at any time *)
C25_AtMostOneLoop == monitor_threads <= 1

(* C26: the limits an evaluation of the gate has read all belong to one    *)
(* set of settings, the one before an update or the one after it.          *)
C26_GateReadsOneSnapshot ==
    \E snapshot \in SettingsChoices :
      \A i \in DOMAIN limit_access.seen :
        limit_access.seen[i].value = snapshot[limit_access.seen[i].limit]

(* C27: when the venue refuses the opening order, or the call raises,      *)
(* execute_trade returns its error result, registers no position, and      *)
(* leaves the tracked positions, their stops and the monitoring as they    *)
(* were.                                                                   *)
C27_RefusedOrderOpensNothing ==
    (/\ call.op = "execute_trade"
     /\ Traced("open_rejected", 0) \/ Traced("open_raised", 0))
      => /\ ~call.ret
         /\ ~Traced("added", 0)
         /\ call.frame.positions
         /\ call.frame.venue
         /\ call.frame.monitoring

C27_Witness ==
    /\ call.op = "execute_trade"
    /\ Traced("open_rejected", 0)
    /\ rm.failed_trades_today = 1
    /\ active_positions = << >>

(* C30: every opening order execute_trade sends, accepted or not, comes    *)
(* after the gate allowed the trade in the same call; a call that could    *)
(* not fetch the balance asks no gate and sends no order.                  *)
C30_OrderOnlyAfterAllowed ==
    call.op = "execute_trade" =>
      /\ \A j \in DOMAIN call.trace :
           call.trace[j].ev \in { "open_order", "open_rejected", "open_raised" } =>
             \E i \in 1..(j - 1) : call.trace[i].ev = "gate_allowed"
      /\ ~(Traced("gate_allowed", 0) \/ Traced("gate_denied", 0)) =>
           \A j \in DOMAIN call.trace :
             call.trace[j].ev \notin { "open_order", "open_rejected", "open_raised" }

C30_Witness ==
    /\ call.op = "execute_trade"
    /\ call.ret
    /\ Len(call.trace) >= 2
    /\ call.trace[1].ev = "gate_allowed"
    /\ call.trace[2].ev = "open_order"

(* C28: move_sl_to_breakeven, update_trailing_stop, check_emergency_stop,  *)
(* close_position_market and setup_tp_sl_orders called for an instrument   *)
(* that is not tracked return False, produce no event (no order, no        *)
(* cancel) and leave the tracked positions, the ledger and the stops at    *)
(* the venue as they were.                                                 *)
C28_UntrackedInstrumentUntouched ==
    (/\ call.op \in { "move_sl_to_breakeven", "update_trailing_stop", "check_emergency_stop",
                      "close_position_market", "setup_tp_sl_orders" }
     /\ ~call.before.tracked)
      => /\ ~call.ret
         /\ call.trace = << >>
         /\ call.frame.positions
         /\ call.frame.ledger
         /\ call.frame.venue

C28_Witness ==
    /\ call.op = "close_position_market"
    /\ ~call.before.tracked
    /\ ~call.ret
    /\ next_order_id = 1
    /\ active_positions = << >>

(* C29: current_drawdown is never negative. *)
C29_DrawdownNeverNegative == rm.current_drawdown >= 0

(* C31: with unchanged limits the number of positions in the open set      *)
(* never exceeds max_open_positions, however the executions of signals for *)
(* different instruments interleave.                                       *)
C31_OpenPositionsWithinLimit ==
    Cardinality(DOMAIN active_positions) <= rm.lim.max_open_positions

(* C32: move_sl_to_breakeven never leaves a position less protected than   *)
(* before: when the position had a stop order in force at the call and the *)
(* new stop was rejected, by the validation or by the venue, the position  *)
(* is not left with an empty sl_order_id and its old stop cancelled.       *)
C32_BreakevenKeepsAStop ==
    [][ \A symbol \in DOMAIN active_positions :
          (/\ call'.op = "move_sl_to_breakeven"
           /\ call'.symbol = symbol
           /\ active_positions[symbol].sl_order_id # None
           /\ venue[symbol] # NoPrice
           /\ ~call'.ret)
          => ~(/\ active_positions'[symbol].sl_order_id = None
               /\ venue'[symbol] = NoPrice) ]_vars

(* C33: the stop price in force at the venue for a position never moves in *)
(* the unfavourable direction while the position lives: a step that        *)
(* replaces a stop in force by another one, a breakeven move after the     *)
(* trailing stop has tightened it included, never puts the new stop lower  *)
(* for a long or higher for a short.                                       *)
C33_StopNeverLoosens ==
    [][ \A symbol \in DOMAIN venue :
          (SamePosition(symbol) /\ venue[symbol] # NoPrice /\ venue'[symbol] # NoPrice)
          => IF IsLong(active_positions[symbol])
             THEN venue'[symbol] >= venue[symbol]
             ELSE venue'[symbol] <= venue[symbol] ]_vars

(* C34: when the venue rejects the stop that update_trailing_stop tries to *)
(* place, the position's trailing_stop_price and trailing_stop_active keep *)
(* the values they had before the call, so that the recorded trailing stop *)
(* is always a stop the venue accepted.                                    *)
C34_RejectedTrailingKeepsRecord ==
    [][ \A symbol \in DOMAIN active_positions :
          (/\ call'.op = "update_trailing_stop"
           /\ call'.symbol = symbol
           /\ \E i \in DOMAIN call'.trace : call'.trace[i].ev = "stop_rejected")
          => /\ active_positions'[symbol].trailing_stop_price
                  = active_positions[symbol].trailing_stop_price
             /\ active_positions'[symbol].trailing_stop_active
                  = active_positions[symbol].trailing_stop_active ]_vars

(* C35: the profit or loss recorded on a stop fill is that of an exit at   *)
(* the stop price in force when the stop filled: margin_used * leverage *  *)
(* gain% / 100 with the gain% of that stop, also after the stop has been   *)
(* moved to breakeven or trailed, and not the distance to the signal's     *)
(* original stop_loss.  The record of the fill is the last the step wrote. *)
C35_StopFillBookedAtStopInForce ==
    [][ \A symbol \in DOMAIN active_positions :
          (/\ venue[symbol] # NoPrice
           /\ \E i \in DOMAIN log' :
                /\ log'[i].ev = "sl_filled" /\ log'[i].sym = symbol
                /\ \E j \in DOMAIN log' : j > i /\ log'[j].ev = "record")
          => trade_history'[Len(trade_history')].profit_loss
               = EstimatedPnL(active_positions[symbol],
                              ProfitPct(active_positions[symbol], venue[symbol])) ]_vars

(* the quantities of the take-profit orders placed for a position, summed *)
RECURSIVE SumQuantities(_, _)
SumQuantities(tp_orders, nums) ==
    IF nums = {} THEN 0
    ELSE LET n == CHOOSE x \in nums : TRUE
         IN  tp_orders[n].quantity + SumQuantities(tp_orders, nums \ {n})

(* C36: the quantities of the take-profit orders placed by the setup of a  *)
(* position never sum to more than the position's size.                    *)
C36_LadderWithinPositionSize ==
    \A symbol \in DOMAIN active_positions :
        SumQuantities(active_positions[symbol].tp_orders,
                      DOMAIN active_positions[symbol].tp_orders)
          <= active_positions[symbol].position_size

C38_TradesTodayCountsOpenings ==
    rm.total_trades_today = next_order_id

(* C39: after save_risk_data and a restart of the process, the risk        *)
(* limits, the lifetime statistics with the peak balance, the              *)
(* consecutive-loss counter and the realized-loss accumulators of the day  *)
(* and of the week are the values that were saved, and the gate denies     *)
(* after the restart whatever it denied before it.                         *)
C39_RestartKeepsLedger ==
    [][ Restart =>
          /\ rm'.lim = rm.lim
          /\ load_risk_data(save_risk_data(rm')) = load_risk_data(save_risk_data(rm))
          /\ rm'.consecutive_losses = rm.consecutive_losses
          /\ rm'.daily_losses[Today(now)] = rm.daily_losses[Today(now)]
          /\ rm'.weekly_losses[WeekStart(now)] = rm.weekly_losses[WeekStart(now)]
          /\ \A balance \in GateBalances : \A margin_level \in GateMargins :
                check_trading_allowed(rm', now, balance, margin_level, 0).allowed
                  => check_trading_allowed(rm, now, balance, margin_level, 0).allowed ]_vars

====
